---- MODULE Spec2Model ----
(***************************************************************************)
(* Reading-state machine of the NovelReader repository.                    *)
(*                                                                         *)
(* The repository holds two variants of the same class NovelReader:        *)
(*   src/reader.js           (variable impl = "reader")                    *)
(*   src/unnamed/part_000    (variable impl = "part")                      *)
(* Both keep the same fields (novelData, currentChapter, currentPosition,  *)
(* scrollTimeout ...) and the same storage key for the Progress record, so *)
(* one set of variables carries either variant; impl is chosen in Init and *)
(* never changes.  Operators of reader.js that share a name with one of    *)
(* part_000 carry the prefix R_.                                           *)
(*                                                                         *)
(* Scroll fractions are fixed-point numbers in units of 1/SCALE            *)
(* (reader.js rounds to exactly that precision; the geometry used here     *)
(* makes the quotients of part_000 exact at that precision as well).       *)
(* Time is in milliseconds.  Timers hold the time left until they fire.    *)
(***************************************************************************)
EXTENDS Integers, Sequences, FiniteSets, TLC

VARIABLES
    impl,             \* which source file is running
    novelData,        \* this.novelData: NoNovel or the loaded file
    currentChapter,   \* this.currentChapter
    currentPosition,  \* this.currentPosition (fraction, units of 1/SCALE)
    shown,            \* chapter whose markup is in #chapterContent (-1: none)
    scrollTop,        \* #chapterContent.scrollTop (px)
    scrollEvt,        \* a scroll event of the viewport is queued by the browser
    btnBound,         \* the chapter-end button of the content has its click listener
    timers,           \* pending setTimeout / requestAnimationFrame callbacks, oldest first
    progress,         \* localStorage[STORAGE_KEYS.PROGRESS]: NoRecord or a record
    storageFails,     \* localStorage.setItem currently throws (quota exceeded)
    reads,            \* files handed to FileReader whose read has not completed
    op,               \* history: the step taken last and the chapter index it asked for
                      \* (for scroll handling: the number of timers it found pending)
    autoCount,        \* history: auto-advance chapter changes since the last user input,
                      \* counting the timers started on the chapter they leave
    probe,            \* a function of the program applied on its own: its name, its
                      \* arguments, its result, and whether it has been applied
    bookmarks,        \* this.bookmarks
    storedBookmarks,  \* localStorage[STORAGE_KEYS.BOOKMARKS], parsed (<<>> when absent)
    marksBefore,      \* history: the bookmark sets and the place of the last toggle
    settings,         \* this.settings
    storedSettings,   \* localStorage[STORAGE_KEYS.SETTINGS]: the text under the key
    classes           \* the theme-* and font-* classes of the themed element: the
                      \* document root (reader.js), the reader container (part_000)

vars == <<impl, novelData, currentChapter, currentPosition, shown, scrollTop,
          scrollEvt, btnBound, timers, progress, storageFails, reads, op, autoCount,
          probe, bookmarks, storedBookmarks, marksBefore, settings, storedSettings,
          classes>>

-----------------------------------------------------------------------------
(* Program constants *)

DEBOUNCE_DELAY == 200
AUTO_ADVANCE_DELAY == 500
RESTORE_DELAY == 10
THRESHOLD == 100
SCALE == 10000

(* Bounds of the model *)

MaxChapters == 3
MaxReads == 1
MaxDeferred == 1

-----------------------------------------------------------------------------
(* Input files.  A file is known by the title of its document and the      *)
(* number of chapters extraction finds in it.  Two files may carry the     *)
(* same title (a revised edition with a different number of chapters).     *)

Titles == {"Foo", "Bar"}
NoNovel == [title |-> "", n |-> 0]
NoRecord == [novelTitle |-> "", currentChapter |-> 0, currentPosition |-> 0]
Files == {[title |-> "Foo", n |-> MaxChapters],
          [title |-> "Foo", n |-> 1],
          [title |-> "Bar", n |-> 2]}

(* Geometry of the content viewport.  The viewport is ClientHeight px      *)
(* high; every second chapter fits in it, the others overflow it by        *)
(* PageMax px.                                                             *)
ClientHeight == 6 * THRESHOLD
PageMax == 4 * THRESHOLD
ChapterHeight(i) == IF i % 2 = 1 THEN ClientHeight ELSE ClientHeight + PageMax

Min(a, b) == IF a < b THEN a ELSE b
Max(a, b) == IF a > b THEN a ELSE b

-----------------------------------------------------------------------------
(* The session as one value, so that the handlers compose the way the      *)
(* methods call one another.  S is the current state; Commit(s) makes s    *)
(* the next state.                                                         *)

S == [nd |-> novelData, cur |-> currentChapter, pos |-> currentPosition,
      shown |-> shown, top |-> scrollTop, evt |-> scrollEvt, btn |-> btnBound,
      tm |-> timers, prog |-> progress]

Commit(s) ==
    /\ novelData' = s.nd
    /\ currentChapter' = s.cur
    /\ currentPosition' = s.pos
    /\ shown' = s.shown
    /\ scrollTop' = s.top
    /\ scrollEvt' = s.evt
    /\ btnBound' = s.btn
    /\ timers' = s.tm
    /\ progress' = s.prog

-----------------------------------------------------------------------------
(* The browser: the content viewport and the timers *)

\* content.scrollHeight: the height of the markup in #chapterContent
ScrollHeightOf(s) == IF s.shown < 0 THEN ClientHeight ELSE ChapterHeight(s.shown)
\* content.scrollHeight - content.clientHeight
MaxScrollOf(s) == ScrollHeightOf(s) - ClientHeight

\* an assignment to content.scrollTop: the browser clamps the offset and
\* queues a scroll event when the offset changed
setScrollTop(s, v) ==
    LET c == Max(0, Min(v, MaxScrollOf(s)))
    IN [s EXCEPT !.top = c, !.evt = @ \/ (c # s.top)]

\* an assignment to content.innerHTML: the offset is kept, clamped to the
\* new content
setInnerHTML(s, index) ==
    setScrollTop([s EXCEPT !.shown = index], s.top)

\* a timer; ch, nv and low are history (the chapter and novel an auto-advance
\* timer was started on, and whether a scroll event has since left the
\* position above the near-bottom zone)
NewTimer(s, kind, delay, ref) ==
    [kind |-> kind, rem |-> delay, ref |-> ref,
     ch |-> IF kind = "auto" THEN s.cur ELSE 0,
     nv |-> IF kind = "auto" THEN s.nd ELSE NoNovel,
     low |-> FALSE]

\* handle = setTimeout(...): the field now refers to the new timer only
setTimeoutRef(s, kind, delay) ==
    [s EXCEPT !.tm = Append(
        [i \in DOMAIN s.tm |->
            IF s.tm[i].kind = kind THEN [s.tm[i] EXCEPT !.ref = FALSE] ELSE s.tm[i]],
        NewTimer(s, kind, delay, TRUE))]

\* handle = null: the field refers to no timer
clearHandle(tm, kind) ==
    [i \in DOMAIN tm |-> IF tm[i].kind = kind THEN [tm[i] EXCEPT !.ref = FALSE] ELSE tm[i]]

\* setTimeout(...) whose handle is dropped
setTimeoutFree(s, kind, delay) ==
    [s EXCEPT !.tm = Append(@, NewTimer(s, kind, delay, FALSE))]

\* localStorage.setItem(STORAGE_KEYS.PROGRESS, ...) inside try/catch
setItemProgress(s, rec) == IF storageFails THEN s ELSE [s EXCEPT !.prog = rec]

\* a slip a timer restart could have: the previous timer is left pending
clearTimeout_none(tm, kind) == tm

\* clearTimeout(handle): the timer the handle field of that kind refers to
clearTimeout(tm, kind) == SelectSeq(tm, LAMBDA t : ~(t.kind = kind /\ t.ref))

\* a slip the range check could have: the upper end included
ValidIndex_inclusive(nd, index) == index >= 0 /\ index <= nd.n

\* index >= 0 && index < chapters.length
ValidIndex(nd, index) == index >= 0 /\ index < nd.n

-----------------------------------------------------------------------------
(* src/unnamed/part_000 *)

debounce(s) ==
    setTimeoutRef([s EXCEPT !.tm = clearTimeout(@, "scroll")], "scroll", DEBOUNCE_DELAY)

updateProgress(s) ==
    LET scrollHeight == MaxScrollOf(s)
    IN IF scrollHeight > 0
       THEN [s EXCEPT !.pos = (s.top * SCALE) \div scrollHeight]
       ELSE s

saveProgress(s) ==
    IF s.nd = NoNovel THEN s
    ELSE setItemProgress(s, [novelTitle |-> s.nd.title,
                             currentChapter |-> s.cur,
                             currentPosition |-> s.pos])

loadProgress(s) ==
    IF s.prog # NoRecord /\ s.prog.novelTitle = s.nd.title
    THEN [s EXCEPT !.cur = s.prog.currentChapter, !.pos = s.prog.currentPosition]
    ELSE s

restoreScrollPosition(s) ==
    IF s.pos > 0 THEN setTimeoutFree(s, "restore", RESTORE_DELAY) ELSE s

\* the callback of the timer of restoreScrollPosition
restoreCallback(s) == setScrollTop(s, (MaxScrollOf(s) * s.pos) \div SCALE)

displayChapter(s, chapterIndex) ==
    IF s.nd = NoNovel \/ ~ValidIndex(s.nd, chapterIndex) THEN s
    ELSE LET s1 == [s EXCEPT !.cur = chapterIndex]
             s2 == [setInnerHTML(s1, chapterIndex) EXCEPT !.btn = TRUE]
         IN saveProgress(updateProgress(restoreScrollPosition(s2)))

previousChapter(s) ==
    IF s.cur > 0 THEN displayChapter(s, s.cur - 1) ELSE s

nextChapter(s) ==
    IF s.nd # NoNovel /\ s.cur < s.nd.n - 1 THEN displayChapter(s, s.cur + 1) ELSE s

displayChapterWithScrollToTop(s, chapterIndex) ==
    IF s.nd = NoNovel \/ ~ValidIndex(s.nd, chapterIndex) THEN s
    ELSE LET s1 == [s EXCEPT !.cur = chapterIndex]
             s2 == [setInnerHTML(s1, chapterIndex) EXCEPT !.btn = FALSE]
         IN setTimeoutFree(s2, "raf", 0)

\* the requestAnimationFrame callback of displayChapterWithScrollToTop
rafCallback(s) == setTimeoutFree(s, "top", RESTORE_DELAY)

\* the timer callback inside it
topCallback(s) ==
    saveProgress(updateProgress([setScrollTop(s, 0) EXCEPT !.btn = TRUE]))

nextChapterDirect(s) ==
    IF s.nd = NoNovel \/ s.cur >= s.nd.n - 1 THEN s
    ELSE displayChapterWithScrollToTop([s EXCEPT !.cur = s.cur + 1], s.cur + 1)

handleChapterEndNavigation(s) ==
    IF s.nd = NoNovel THEN s
    ELSE IF s.cur >= s.nd.n - 1 THEN s
    ELSE nextChapterDirect(s)

\* the test of checkAutoAdvance on the three numbers it reads
nearBottomPx(top, clientHeight, scrollHeight) ==
    top + clientHeight >= scrollHeight - THRESHOLD

nearBottom(s) == nearBottomPx(s.top, ClientHeight, ScrollHeightOf(s))

\* a slip checkAutoAdvance could have: the last chapter is not set apart
checkAutoAdvance_anywhere(s) ==
    IF s.nd = NoNovel THEN s
    ELSE IF nearBottom(s)
         THEN setTimeoutRef([s EXCEPT !.tm = clearTimeout(@, "auto")],
                            "auto", AUTO_ADVANCE_DELAY)
         ELSE [s EXCEPT !.tm = clearTimeout(@, "auto")]

checkAutoAdvance(s) ==
    IF s.nd = NoNovel \/ s.cur >= s.nd.n - 1 THEN s
    ELSE IF nearBottom(s)
         THEN setTimeoutRef([s EXCEPT !.tm = clearTimeout(@, "auto")],
                            "auto", AUTO_ADVANCE_DELAY)
         ELSE [s EXCEPT !.tm = clearTimeout(@, "auto")]

\* a slip the scroll listener could have: every raw event is processed
handleScroll_eager(s) == saveProgress(updateProgress(debounce(s)))

handleScroll(s) == debounce(s)

\* the callback handleScroll hands to debounce
scrollCallback(s) == checkAutoAdvance(saveProgress(updateProgress(s)))

\* the callback of the timer of checkAutoAdvance
autoAdvanceCallback(s) ==
    LET s1 == IF s.cur < s.nd.n - 1 THEN nextChapter(s) ELSE s
    IN [s1 EXCEPT !.tm = clearHandle(@, "auto")]

\* processFile from the point where readFileAsText has resolved
processFile(s, file) ==
    LET s1 == [s EXCEPT !.nd = file, !.cur = 0, !.pos = 0]
    IN loadProgress(displayChapter(s1, 0))

\* how a load that fails can end: the read fails, the document holds a
\* parsererror element, or no chapter is extracted
FailOutcomes == {"readError", "parseError", "noChapters"}

\* a slip processFile could have: only a failed read stops the load
processFileOutcome_unchecked(s, file, outcome) ==
    IF outcome = "readError" THEN s ELSE processFile(s, file)

\* processFile with the outcome of the read and of the checks that follow
\* it: every failure throws before the first assignment
processFileOutcome(s, file, outcome) ==
    IF outcome # "ok" THEN s ELSE processFile(s, file)

-----------------------------------------------------------------------------
(* src/reader.js *)

R_displayChapter(s, index) ==
    IF ~ValidIndex(s.nd, index) THEN s        \* chapters[index] is undefined
    ELSE [setScrollTop(setInnerHTML(s, index), 0) EXCEPT !.pos = 0]

goToChapter(s, index) ==
    IF s.nd = NoNovel THEN s
    ELSE IF ValidIndex(s.nd, index)
         THEN R_displayChapter([s EXCEPT !.cur = index], index)
         ELSE s

saveReadingProgress(s) ==
    IF s.nd = NoNovel THEN s
    ELSE setItemProgress(s, [novelTitle |-> s.nd.title,
                             currentChapter |-> s.cur,
                             currentPosition |-> s.pos])

\* Math.round(x * 10000) / 10000 of the quotient a / b, in units of 1/SCALE
RoundedFraction(a, b) == (2 * a * SCALE + b) \div (2 * b)

handleScrollDebounced(s) ==
    LET p == IF ScrollHeightOf(s) > ClientHeight
             THEN RoundedFraction(s.top, MaxScrollOf(s))
             ELSE 0
    IN saveReadingProgress([s EXCEPT !.pos = p])

R_restoreScrollPosition(s) ==
    IF s.pos > 0 THEN setScrollTop(s, (MaxScrollOf(s) * s.pos) \div SCALE) ELSE s

goToBeginning(s) ==
    saveReadingProgress([setScrollTop(s, 0) EXCEPT !.pos = 0])

goToEnd(s) ==
    saveReadingProgress([setScrollTop(s, MaxScrollOf(s)) EXCEPT !.pos = SCALE])

loadReadingProgress(s) ==
    IF s.prog # NoRecord /\ s.prog.novelTitle = s.nd.title
    THEN LET s1 == [s EXCEPT !.cur = s.prog.currentChapter,
                             !.pos = s.prog.currentPosition]
             s2 == goToChapter(s1, s1.cur)
         IN IF s2.pos > 0 THEN R_restoreScrollPosition(s2) ELSE s2
    ELSE s

\* reader.onload of processFile
R_processFile(s, file) ==
    loadReadingProgress(R_displayChapter([s EXCEPT !.nd = file], 0))

\* processFile with the outcome of the read: reader.js sets no onerror
\* handler, and parseNovelHTML always returns at least one chapter
R_processFileOutcome(s, file, outcome) ==
    IF outcome = "readError" THEN s ELSE R_processFile(s, file)

-----------------------------------------------------------------------------
(* Settings: src/unnamed/part_000 and src/reader.js *)

THEMES == {"light", "dark", "sepia"}
FONTS == {"serif", "sans", "mono"}
MIN_FONT_SIZE == 12
MAX_FONT_SIZE == 24

\* JavaScript values of a settings field.  A theme or font is a string, and
\* Undefined stands for a key the object does not have.  A font size is a
\* number, NaN, null, or a key the object does not have.
Undefined == "undefined"
Num(n) == [num |-> n]
NaN == [nan |-> TRUE]
JsNull == [null |-> TRUE]
Missing == [missing |-> TRUE]
IsNum(v) == "num" \in DOMAIN v

\* what localStorage.getItem returns: null when the key is absent, a text
\* that JSON.parse rejects, or the text of a JSON value (here: of null, or of
\* an object with the keys that are not Undefined / Missing)
Absent == [absent |-> TRUE]
Invalid == [invalid |-> TRUE]

DefaultSettings_16 == [theme |-> "light", font |-> "serif", fontSize |-> Num(16)]
DefaultSettings == [theme |-> "light", font |-> "serif", fontSize |-> Num(18)]

\* JSON.stringify of the settings: NaN is written as null, a key without a
\* value is left out
stringify(st) ==
    IF st = JsNull THEN JsNull
    ELSE [st EXCEPT !.fontSize = IF @ = NaN THEN JsNull ELSE @]

\* part_000: the parsed value is returned as it is
loadSettings(text) ==
    IF text = Absent THEN DefaultSettings
    ELSE IF text = Invalid THEN DefaultSettings
    ELSE text

\* reader.js: { ...defaultSettings, ...JSON.parse(saved) }
R_loadSettings(text) ==
    IF text = Absent THEN DefaultSettings
    ELSE IF text = Invalid THEN DefaultSettings
    ELSE IF text = JsNull THEN DefaultSettings
    ELSE [theme |-> IF text.theme = Undefined THEN DefaultSettings.theme ELSE text.theme,
          font |-> IF text.font = Undefined THEN DefaultSettings.font ELSE text.font,
          fontSize |-> IF text.fontSize = Missing THEN DefaultSettings.fontSize
                       ELSE text.fontSize]

\* parseInt of a font size
parseInt(v) == IF IsNum(v) THEN v ELSE NaN

\* Math.max(12, Math.min(24, v)): NaN stays NaN
clampFontSize(v) ==
    IF IsNum(v) THEN Num(Max(MIN_FONT_SIZE, Min(MAX_FONT_SIZE, v.num))) ELSE NaN

\* The settings in memory and in the storage and the classes of the themed
\* element as one value; threw tells whether the method ended in an exception.
saveSettings(ss) ==
    IF storageFails THEN ss ELSE [ss EXCEPT !.stored = stringify(ss.mem)]

\* an assignment this.settings.key = ...: a TypeError when this.settings is null
Throws(ss) == [ss EXCEPT !.threw = TRUE]

ThemeClass(theme) == "theme-" \o theme
FontClass(font) == "font-" \o font

\* reader.js: classList.remove(`theme-${this.settings.theme}`) runs after the
\* assignment to this.settings.theme, then classList.add(`theme-${theme}`);
\* part_000: className = `novel-reader theme-${theme} font-${this.settings.font}`
setTheme(ss, theme) ==
    IF theme \notin THEMES THEN ss
    ELSE IF ss.mem = JsNull THEN Throws(ss)
    ELSE LET s1 == [ss EXCEPT !.mem.theme = theme]
         IN saveSettings(
              [s1 EXCEPT !.cls =
                 IF impl = "reader"
                 THEN (ss.cls \ {ThemeClass(s1.mem.theme)}) \cup {ThemeClass(theme)}
                 ELSE {ThemeClass(theme), FontClass(s1.mem.font)}])

setFont(ss, font) ==
    IF font \notin FONTS THEN ss
    ELSE IF ss.mem = JsNull THEN Throws(ss)
    ELSE LET s1 == [ss EXCEPT !.mem.font = font]
         IN saveSettings(
              [s1 EXCEPT !.cls =
                 IF impl = "reader"
                 THEN (ss.cls \ {FontClass(s1.mem.font)}) \cup {FontClass(font)}
                 ELSE {ThemeClass(s1.mem.theme), FontClass(font)}])

\* part_000
updateFontSize(ss, size) ==
    IF ss.mem = JsNull THEN Throws(ss)
    ELSE saveSettings([ss EXCEPT !.mem.fontSize = parseInt(size)])

\* reader.js
setFontSize(ss, size) ==
    IF ss.mem = JsNull THEN Throws(ss)
    ELSE saveSettings([ss EXCEPT !.mem.fontSize = clampFontSize(parseInt(size))])

\* applySettings: reading this.settings.theme throws when this.settings is
\* null, and init catches it
applySettings(ss) ==
    IF ss.mem = JsNull THEN Throws(ss)
    ELSE LET s1 == setFont(setTheme(ss, ss.mem.theme), ss.mem.font)
         IN IF impl = "reader" THEN setFontSize(s1, s1.mem.fontSize)
                               ELSE updateFontSize(s1, s1.mem.fontSize)

\* the constructor and init: loadSettings, then applySettings
Startup(text) ==
    applySettings([mem |-> IF impl = "reader" THEN R_loadSettings(text)
                                              ELSE loadSettings(text),
                   stored |-> text, threw |-> FALSE, cls |-> {}])

-----------------------------------------------------------------------------
(* The state after construction *)

\* no bookmark has been toggled
NoToggle == [mem |-> {}, stored |-> {}, at |-> <<"", 0>>, unique |-> TRUE]

\* no function is being applied on its own
Idle == [fn |-> "none", in |-> <<>>, out |-> <<>>, done |-> TRUE]

Init ==
    /\ impl \in {"reader", "part"}
    /\ novelData = NoNovel
    /\ currentChapter = 0
    /\ currentPosition = 0
    /\ shown = -1
    /\ scrollTop = 0
    /\ scrollEvt = FALSE
    /\ btnBound = FALSE
    /\ timers = <<>>
    /\ progress = NoRecord
    /\ storageFails = FALSE
    /\ reads = <<>>
    /\ op = [name |-> "init", idx |-> 0]
    /\ autoCount = 0
    /\ probe = Idle
    /\ bookmarks = <<>>
    /\ storedBookmarks = <<>>
    /\ marksBefore = NoToggle
    /\ settings = Startup(Absent).mem
    /\ storedSettings = Startup(Absent).stored
    /\ classes = Startup(Absent).cls

Op(name, idx) == op' = [name |-> name, idx |-> idx]

\* the pending timers of a kind
Pending(kind) == {i \in DOMAIN timers : timers[i].kind = kind}

\* history: a scroll event that leaves the position above the near-bottom
\* zone is remembered on the pending auto-advance timers
markLow(s) ==
    [s EXCEPT !.tm = [i \in DOMAIN s.tm |->
        IF s.tm[i].kind = "auto" /\ ~nearBottom(s)
        THEN [s.tm[i] EXCEPT !.low = TRUE] ELSE s.tm[i]]]

\* history: an auto-advance timer that was started on the chapter now
\* displayed and has seen no scroll event leave the near-bottom zone since
Clean(t) == t.ch = currentChapter /\ t.nv = novelData /\ ~t.low

RemoveAt(seq, i) == [j \in 1..(Len(seq) - 1) |-> IF j < i THEN seq[j] ELSE seq[j + 1]]

\* the timer the event loop runs next: the oldest one that is due
IsDue(i) ==
    /\ i \in DOMAIN timers
    /\ timers[i].rem = 0
    /\ timers[i].kind # "raf"
    /\ \A j \in 1..(i - 1) : timers[j].rem # 0 \/ timers[j].kind = "raf"

\* the deferred parts of chapter switches that are still pending; the model
\* lets the user switch chapters again only while fewer than MaxDeferred are
Deferred == {i \in DOMAIN timers : timers[i].kind \in {"restore", "raf", "top"}}
CanSwitch == Cardinality(Deferred) < MaxDeferred

-----------------------------------------------------------------------------
(* User input *)

\* handleFileSelect / handleFileDrop: the file goes to the FileReader
SelectFile(file) ==
    /\ Len(reads) < MaxReads
    /\ reads' = Append(reads, file)
    /\ Op("selectFile", 0)
    /\ autoCount' = 0
    /\ UNCHANGED <<impl, classes, settings, storedSettings, probe, bookmarks, storedBookmarks, marksBefore, novelData, currentChapter, currentPosition, shown, scrollTop,
                   scrollEvt, btnBound, timers, progress, storageFails>>

\* the read completes: reader.onload (reader.js), the await resumes (part_000)
ReadDone(i) ==
    /\ i \in DOMAIN reads
    /\ CanSwitch
    /\ Commit(IF impl = "reader" THEN R_processFileOutcome(S, reads[i], "ok")
                                 ELSE processFileOutcome(S, reads[i], "ok"))
    /\ reads' = RemoveAt(reads, i)
    /\ Op("load", 0)
    /\ autoCount' = 0
    /\ UNCHANGED <<impl, classes, settings, storedSettings, probe, bookmarks, storedBookmarks, marksBefore, storageFails>>

\* the load fails: the read ends in an error, or (part_000) a check on the
\* document throws
ReadFails(i, outcome) ==
    /\ i \in DOMAIN reads
    /\ impl = "reader" => outcome = "readError"
    /\ Commit(IF impl = "reader" THEN R_processFileOutcome(S, reads[i], outcome)
                                 ELSE processFileOutcome(S, reads[i], outcome))
    /\ reads' = RemoveAt(reads, i)
    /\ Op("loadFailed", 0)
    /\ UNCHANGED <<impl, classes, settings, storedSettings, probe, bookmarks, storedBookmarks, marksBefore, storageFails,
                   autoCount>>

\* the previous-chapter button
PreviousClick ==
    /\ CanSwitch
    /\ Commit(IF impl = "reader" THEN goToChapter(S, currentChapter - 1)
                                 ELSE previousChapter(S))
    /\ Op("previous", currentChapter - 1)
    /\ autoCount' = 0
    /\ UNCHANGED <<impl, classes, settings, storedSettings, probe, bookmarks, storedBookmarks, marksBefore, storageFails, reads>>

\* the next-chapter button
NextClick ==
    /\ CanSwitch
    /\ Commit(IF impl = "reader" THEN goToChapter(S, currentChapter + 1)
                                 ELSE nextChapter(S))
    /\ Op("next", currentChapter + 1)
    /\ autoCount' = 0
    /\ UNCHANGED <<impl, classes, settings, storedSettings, probe, bookmarks, storedBookmarks, marksBefore, storageFails, reads>>

\* a click on an entry of the table of contents
ChapterClick(index) ==
    /\ novelData # NoNovel
    /\ CanSwitch
    /\ index \in 0..(novelData.n - 1)
    /\ Commit(IF impl = "reader" THEN goToChapter(S, index)
                                 ELSE displayChapter(S, index))
    /\ Op("toc", index)
    /\ autoCount' = 0
    /\ UNCHANGED <<impl, classes, settings, storedSettings, probe, bookmarks, storedBookmarks, marksBefore, storageFails, reads>>

\* a click on the button at the end of the chapter (part_000)
ChapterEndClick ==
    /\ impl = "part"
    /\ CanSwitch
    /\ btnBound
    /\ Commit(handleChapterEndNavigation(S))
    /\ Op("chapterEnd", currentChapter + 1)
    /\ autoCount' = 0
    /\ UNCHANGED <<impl, classes, settings, storedSettings, probe, bookmarks, storedBookmarks, marksBefore, storageFails, reads>>

\* the positions the user scrolls to
ScrollStops(s) == {0, MaxScrollOf(s) \div 2, MaxScrollOf(s)}

\* the user scrolls the content: the scroll listener runs handleScroll
UserScroll(v) ==
    /\ novelData # NoNovel
    /\ v # scrollTop
    /\ Commit(handleScroll(markLow([S EXCEPT !.top = v])))
    /\ Op("scroll", Cardinality(Pending("scroll")))
    /\ autoCount' = 0
    /\ UNCHANGED <<impl, classes, settings, storedSettings, probe, bookmarks, storedBookmarks, marksBefore, storageFails, reads>>

-----------------------------------------------------------------------------
(* The browser's event loop *)

\* the scroll event the browser queued for a change of the offset by script
\* or layout reaches the scroll listener
DispatchScroll ==
    /\ scrollEvt
    /\ Commit(handleScroll(markLow([S EXCEPT !.evt = FALSE])))
    /\ Op("scroll", Cardinality(Pending("scroll")))
    /\ UNCHANGED <<impl, classes, settings, storedSettings, probe, bookmarks, storedBookmarks, marksBefore, storageFails, reads, autoCount>>

Fired(i) == [S EXCEPT !.tm = RemoveAt(timers, i)]

\* the debounced scroll callback
FireScroll ==
    \E i \in DOMAIN timers :
        /\ IsDue(i)
        /\ timers[i].kind = "scroll"
        /\ Commit(IF impl = "reader" THEN handleScrollDebounced(Fired(i))
                                     ELSE scrollCallback(Fired(i)))
        /\ Op("debounced", Cardinality(Pending("auto")))
        /\ UNCHANGED <<impl, classes, settings, storedSettings, probe, bookmarks, storedBookmarks, marksBefore, storageFails, reads, autoCount>>

\* the auto-advance callback (part_000)
FireAutoAdvance ==
    \E i \in DOMAIN timers :
        /\ IsDue(i)
        /\ timers[i].kind = "auto"
        /\ LET s == autoAdvanceCallback(Fired(i))
           IN /\ Commit(s)
              /\ autoCount' = IF s.cur # currentChapter /\ Clean(timers[i])
                              THEN autoCount + 1 ELSE autoCount
        /\ Op("autoAdvance", currentChapter + 1)
        /\ UNCHANGED <<impl, classes, settings, storedSettings, probe, bookmarks, storedBookmarks, marksBefore, storageFails, reads>>

\* the callback of restoreScrollPosition (part_000)
FireRestore ==
    \E i \in DOMAIN timers :
        /\ IsDue(i)
        /\ timers[i].kind = "restore"
        /\ Commit(restoreCallback(Fired(i)))
        /\ Op("restore", 0)
        /\ UNCHANGED <<impl, classes, settings, storedSettings, probe, bookmarks, storedBookmarks, marksBefore, storageFails, reads, autoCount>>

\* the animation frame of displayChapterWithScrollToTop (part_000)
FireFrame ==
    \E i \in DOMAIN timers :
        /\ timers[i].kind = "raf"
        /\ Commit(rafCallback(Fired(i)))
        /\ Op("frame", 0)
        /\ UNCHANGED <<impl, classes, settings, storedSettings, probe, bookmarks, storedBookmarks, marksBefore, storageFails, reads, autoCount>>

\* the timer inside that frame (part_000)
FireTop ==
    \E i \in DOMAIN timers :
        /\ IsDue(i)
        /\ timers[i].kind = "top"
        /\ Commit(topCallback(Fired(i)))
        /\ Op("top", 0)
        /\ UNCHANGED <<impl, classes, settings, storedSettings, probe, bookmarks, storedBookmarks, marksBefore, storageFails, reads, autoCount>>

\* Two time scales.  The deferred parts of a chapter switch (an animation
\* frame, RESTORE_DELAY) are short against the delays of the debounce and of
\* the auto-advance, which are tracked in steps of TickStep: a short timer
\* comes due before any of those moves on.
IsShort(t) == t.kind \in {"restore", "top", "raf"}

ShortTick ==
    /\ ~scrollEvt
    /\ \A i \in DOMAIN timers : timers[i].kind # "raf"
    /\ \E i \in DOMAIN timers : IsShort(timers[i]) /\ timers[i].rem > 0
    /\ timers' = [i \in DOMAIN timers |->
                    IF IsShort(timers[i]) THEN [timers[i] EXCEPT !.rem = 0]
                    ELSE timers[i]]
    /\ Op("tick", 0)
    /\ UNCHANGED <<impl, classes, settings, storedSettings, probe, bookmarks, storedBookmarks, marksBefore, novelData, currentChapter, currentPosition, shown, scrollTop,
                   scrollEvt, btnBound, progress, storageFails, reads, autoCount>>

\* time passes: up to the next deadline, at most TickStep at once; nothing
\* that is due or queued is left behind
TickStep == DEBOUNCE_DELAY \div 2
RECURSIVE NextStep(_, _)
NextStep(d, i) ==
    IF i > Len(timers) THEN d ELSE NextStep(Min(d, timers[i].rem), i + 1)
Tick ==
    /\ timers # <<>>
    /\ ~scrollEvt
    /\ \A i \in DOMAIN timers : timers[i].rem > 0 /\ ~IsShort(timers[i])
    /\ LET d == NextStep(TickStep, 1)
       IN timers' = [i \in DOMAIN timers |-> [timers[i] EXCEPT !.rem = @ - d]]
    /\ Op("tick", 0)
    /\ UNCHANGED <<impl, classes, settings, storedSettings, probe, bookmarks, storedBookmarks, marksBefore, novelData, currentChapter, currentPosition, shown, scrollTop,
                   scrollEvt, btnBound, progress, storageFails, reads, autoCount>>

Next ==
    \/ \E file \in Files : SelectFile(file)
    \/ \E i \in 1..MaxReads : ReadDone(i)
    \/ PreviousClick
    \/ NextClick
    \/ \E index \in 0..(MaxChapters - 1) : ChapterClick(index)
    \/ ChapterEndClick
    \/ \E v \in ScrollStops(S) : UserScroll(v)
    \/ DispatchScroll
    \/ FireScroll
    \/ FireAutoAdvance
    \/ FireRestore
    \/ FireFrame
    \/ FireTop
    \/ ShortTick
    \/ Tick

Spec == Init /\ [][Next]_vars

-----------------------------------------------------------------------------
(* Claims *)

Loaded == novelData # NoNovel
InRange(nd, index) == index \in 0..(nd.n - 1)
\* the stored Progress record belongs to the novel nd
Matches(rec, nd) == rec # NoRecord /\ rec.novelTitle = nd.title
\* a request for a chapter made by the user
NavOps == {"previous", "next", "toc"}
\* the auto-advance timer the event loop runs next, if any
DueAuto == {i \in DOMAIN timers : IsDue(i) /\ timers[i].kind = "auto"}

\* C1: whenever a novel is loaded, 0 <= currentChapter < novel.chapters.length.
C1_ChapterInRange == Loaded => InRange(novelData, currentChapter)

\* the viewport is at rest at the top: offset 0 and no scroll event queued
AtTop == scrollTop = 0 /\ ~scrollEvt

\* C2: a successful load of a file whose title matches the stored Progress
\* record (c, f), c in range, ends on chapter c, showing chapter c, at
\* fraction f (stated for loads that find the viewport at the top).
C2_LoadRestoresProgress ==
    [][(op'.name = "load" /\ AtTop /\ Matches(progress, novelData')
            /\ InRange(novelData', progress.currentChapter))
        => (/\ currentChapter' = progress.currentChapter
            /\ shown' = progress.currentChapter
            /\ currentPosition' = progress.currentPosition)]_vars

\* C3: a successful load of a file no stored Progress record matches ends on
\* chapter 0 at fraction 0, from any prior session state (stated for loads
\* that find the viewport at the top).
C3_LoadWithoutMatchStartsAtTop ==
    [][(op'.name = "load" /\ AtTop /\ ~Matches(progress, novelData'))
        => (currentChapter' = 0 /\ currentPosition' = 0)]_vars

\* C4: an auto-advance timer does not change the chapter once a scroll event
\* has left the position above the near-bottom zone while it was pending
\* (stated for a timer started on the chapter displayed, firing while the
\* debounce of that scroll event still has time to run).
C4_ScrollBackCancelsAdvance ==
    [][(/\ op'.name = "autoAdvance"
        /\ currentChapter' # currentChapter
        /\ \A j \in DOMAIN timers : timers[j].kind = "scroll" => timers[j].rem > 0)
        => \A i \in DueAuto :
              (timers[i].ch = currentChapter /\ timers[i].nv = novelData)
                  => ~timers[i].low]_vars

\* C5: an auto-advance timer started while another chapter or another novel
\* was displayed never fires and changes currentChapter.
C5_NoOrphanedAdvance ==
    [][(op'.name = "autoAdvance" /\ currentChapter' # currentChapter)
        => \A i \in DueAuto :
              timers[i].ch = currentChapter /\ timers[i].nv = novelData]_vars

\* C6: without further user input, a dwell near the bottom causes at most
\* one auto-advance chapter change (autoCount counts the chapter changes made
\* since the last user input by timers started on the chapter they leave,
\* with no scroll away from the bottom in between).
C6_OneAdvancePerDwell == autoCount <= 1

\* C7: in part_000 every chapter change to a valid index leaves the scroll
\* fraction at 0 and writes a Progress record whose fraction is 0 (stated for
\* a change to another chapter whose content fits the viewport).
C7_ChapterChangeResetsFraction ==
    [][(/\ impl = "part"
        /\ op'.name \in NavOps \cup {"autoAdvance"}
        /\ Loaded
        /\ InRange(novelData, op'.idx)
        /\ op'.idx # currentChapter
        /\ ChapterHeight(op'.idx) = ClientHeight
        /\ ~storageFails)
        => (currentPosition' = 0 /\ progress'.currentPosition = 0)]_vars

\* C8: a navigation request whose index is outside [0, chapters.length)
\* changes neither currentChapter, the scroll fraction, the displayed
\* content, the viewport, the timers nor the stored Progress record.
C8_OutOfRangeIsNoOp ==
    [][(op'.name \in NavOps /\ Loaded /\ ~InRange(novelData, op'.idx))
        => UNCHANGED <<novelData, currentChapter, currentPosition, shown,
                       scrollTop, scrollEvt, timers, progress>>]_vars

\* C8 witness: the previous-chapter request has just been made on chapter 0
\* of a loaded novel that has a stored Progress record
C8_Witness ==
    /\ Loaded
    /\ op.name = "previous"
    /\ op.idx = -1
    /\ currentChapter = 0
    /\ progress # NoRecord

\* C9: once a chapter change to a valid index has completed and the storage
\* write succeeds, the stored Progress record names the new chapter.
C9_ChangePersisted ==
    [][(op'.name \in NavOps /\ Loaded /\ InRange(novelData, op'.idx)
            /\ ~storageFails)
        => (Matches(progress', novelData')
            /\ progress'.currentChapter = currentChapter')]_vars

\* C10: in part_000 no scroll-debounce callback and no auto-advance callback
\* runs while the deferred part of a chapter switch is still pending.
C10_SwitchAtomic ==
    [][(impl = "part" /\ op'.name \in {"debounced", "autoAdvance"})
        => Deferred = {}]_vars

-----------------------------------------------------------------------------
(* A viewport with elastic overscroll: while the user drags past an end of  *)
(* the content the viewport reports offsets below 0 and above the maximum.  *)

\* the offsets such a viewport reports for scrollable content: half the
\* scroll range before the top and seven tenths of it past the bottom
ElasticStops(s) ==
    IF MaxScrollOf(s) > 0
    THEN ScrollStops(s) \cup {0 - (MaxScrollOf(s) \div 2),
                              MaxScrollOf(s) + (7 * MaxScrollOf(s)) \div 10}
    ELSE ScrollStops(s)

\* the Home key (reader.js)
HomeKey ==
    /\ impl = "reader"
    /\ novelData # NoNovel
    /\ Commit(goToBeginning(S))
    /\ Op("home", 0)
    /\ autoCount' = 0
    /\ UNCHANGED <<impl, classes, settings, storedSettings, probe, bookmarks, storedBookmarks, marksBefore, storageFails, reads>>

\* the End key (reader.js)
EndKey ==
    /\ impl = "reader"
    /\ novelData # NoNovel
    /\ Commit(goToEnd(S))
    /\ Op("end", 0)
    /\ autoCount' = 0
    /\ UNCHANGED <<impl, classes, settings, storedSettings, probe, bookmarks, storedBookmarks, marksBefore, storageFails, reads>>

ElasticNext ==
    \/ \E file \in Files : SelectFile(file)
    \/ \E i \in 1..MaxReads : ReadDone(i)
    \/ NextClick
    \/ HomeKey
    \/ EndKey
    \/ \E v \in ElasticStops(S) : UserScroll(v)
    \/ DispatchScroll
    \/ FireScroll
    \/ FireAutoAdvance
    \/ FireRestore
    \/ ShortTick
    \/ Tick

SpecElastic == Init /\ [][ElasticNext]_vars

\* a fraction within [0,1], in units of 1/SCALE
IsFraction(f) == f \in 0..SCALE

\* C11: the scroll fraction of the session and every fraction written to the
\* Progress record are within [0,1], whatever offset the viewport reports.
C11_FractionClamped ==
    [][/\ IsFraction(currentPosition')
       /\ (progress' # progress => IsFraction(progress'.currentPosition))]_vars


\* C12: while the content of the active chapter fits in the viewport, the
\* scroll fraction is 0 after a chapter change, a debounced scroll callback
\* or a scroll command, and so is the fraction stored for that chapter.
C12_FittingContentAtZero ==
    (/\ Loaded
     /\ shown = currentChapter
     /\ MaxScrollOf(S) = 0
     /\ op.name \in {"next", "autoAdvance", "debounced", "home", "end"})
    => /\ currentPosition = 0
       /\ (Matches(progress, novelData) /\ progress.currentChapter = currentChapter)
            => progress.currentPosition = 0

\* C13: at most one scroll-debounce timer and at most one auto-advance
\* timer are pending at any instant.
C13_OnePendingTimerEach ==
    /\ Cardinality(Pending("scroll")) <= 1
    /\ Cardinality(Pending("auto")) <= 1

\* C13 witness: the debounced callback has just run its near-bottom check
\* while an auto-advance timer was pending, and one freshly started
\* auto-advance timer is pending now
C13_Witness ==
    /\ op.name = "debounced"
    /\ op.idx = 1
    /\ Cardinality(Pending("auto")) = 1
    /\ \E i \in Pending("auto") : timers[i].rem = AUTO_ADVANCE_DELAY

\* the time left on the pending auto-advance timers
AutoRems == {timers[i].rem : i \in Pending("auto")}
\* the Progress record a write in the current state stores
RecordNow ==
    [novelTitle |-> novelData.title, currentChapter |-> currentChapter,
     currentPosition |-> currentPosition]

\* C14: a raw scroll event writes no Progress record and evaluates no
\* auto-advance; the debounced callback runs once the full DEBOUNCE_DELAY has
\* passed since the last scroll event, leaves no debounce timer pending and
\* makes the one Progress write of the burst.
C14_ScrollDebounced ==
    [][/\ op'.name = "scroll" =>
            /\ progress' = progress
            /\ currentPosition' = currentPosition
            /\ currentChapter' = currentChapter
            /\ AutoRems' = AutoRems
       /\ op'.name = "debounced" =>
            /\ \A i \in Pending("scroll") : timers[i].rem = 0
            /\ Pending("scroll")' = {}
            /\ (Loaded /\ ~storageFails) => progress' = RecordNow']_vars

\* C14 witness: a scroll event has arrived while the debounce timer of an
\* earlier one was pending, at an offset whose fraction differs from the
\* fraction in memory and in the stored record
C14_Witness ==
    /\ op.name = "scroll"
    /\ op.idx = 1
    /\ Loaded
    /\ MaxScrollOf(S) > 0
    /\ scrollTop * SCALE # currentPosition * MaxScrollOf(S)
    /\ progress # NoRecord
    /\ progress.currentPosition = currentPosition

\* the current chapter is the last one, or beyond it
AtLast == currentChapter >= novelData.n - 1

\* C36: in part_000 auto-advance never acts on the last chapter: the check of
\* the debounced scroll callback starts no auto-advance timer while the
\* current chapter is the last, an auto-advance timer that fires there leaves
\* the current chapter and the chapter shown as they are, and no auto-advance
\* takes the current chapter past the last index
C36_NoAutoAdvanceAtLast ==
    [][/\ (op'.name = "debounced" /\ impl = "part" /\ Loaded /\ AtLast) =>
            /\ Cardinality(Pending("auto")') = Cardinality(Pending("auto"))
            /\ AutoRems' = AutoRems
       /\ (op'.name = "autoAdvance" /\ AtLast) =>
            /\ currentChapter' = currentChapter
            /\ shown' = shown
       /\ op'.name = "autoAdvance" =>
            \/ currentChapter' = currentChapter
            \/ currentChapter' <= novelData.n - 1]_vars

\* an auto-advance timer has fired while the current chapter was the last one
C36_Witness ==
    /\ op.name = "autoAdvance"
    /\ Loaded
    /\ op.idx = novelData.n
    /\ novelData.n > 1

\* the debounced check has run near the bottom of the last chapter
C36_WitnessCheck ==
    /\ op.name = "debounced"
    /\ impl = "part" /\ Loaded /\ AtLast
    /\ novelData.n > 1
    /\ nearBottom(S)

\* C37: whenever a novel is loaded and no handler is running, the chapter
\* shown in the reader is chapters[currentChapter]: the index of the chapter
\* on display and the currentChapter field agree
C37_ShownIsCurrent == Loaded => shown = currentChapter

-----------------------------------------------------------------------------
(* The near-bottom test of checkAutoAdvance on its own: two viewports of     *)
(* any heights, each at any offset, are handed to the test.                  *)

\* viewport heights, the amounts by which content overflows them, and the
\* quarters of the scroll range
ViewHeights == {3 * THRESHOLD, 6 * THRESHOLD, 9 * THRESHOLD}
Overflows == {THRESHOLD \div 2, 4 * THRESHOLD, 20 * THRESHOLD}
Quarters == 0..4
Viewports ==
    {[top |-> (q * o) \div 4, clientHeight |-> h, scrollHeight |-> h + o] :
        q \in Quarters, h \in ViewHeights, o \in Overflows}

NearInit ==
    /\ impl = "part"
    /\ Init!2 /\ Init!3 /\ Init!4 /\ Init!5 /\ Init!6 /\ Init!7
    /\ Init!8 /\ Init!9 /\ Init!10 /\ Init!11 /\ Init!12 /\ Init!13 /\ Init!14
    /\ Init!16 /\ Init!17 /\ Init!18 /\ Init!19 /\ Init!20 /\ Init!21
    /\ probe \in {[fn |-> "nearBottom", in |-> <<a, b>>, out |-> <<>>, done |-> FALSE] :
                     a \in Viewports, b \in Viewports}

\* checkAutoAdvance reads each viewport and decides
NearApply ==
    /\ probe.fn = "nearBottom"
    /\ ~probe.done
    /\ probe' = [probe EXCEPT
            !.out = <<nearBottomPx(probe.in[1].top, probe.in[1].clientHeight,
                                   probe.in[1].scrollHeight),
                      nearBottomPx(probe.in[2].top, probe.in[2].clientHeight,
                                   probe.in[2].scrollHeight)>>,
            !.done = TRUE]
    /\ UNCHANGED <<impl, classes, settings, storedSettings, novelData, currentChapter, currentPosition, shown, scrollTop,
                   scrollEvt, btnBound, timers, progress, storageFails, reads, op,
                   autoCount, bookmarks, storedBookmarks, marksBefore>>

SpecNear == NearInit /\ [][NearApply]_vars

\* the scroll range of a viewport, and two viewports at the same fraction
RangeOf(v) == v.scrollHeight - v.clientHeight
SameFraction(a, b) == a.top * RangeOf(b) = b.top * RangeOf(a)

\* C15: the near-bottom decision depends on the scroll fraction alone: two
\* viewports at the same fraction get the same decision, and fraction 0 of a
\* scrollable chapter is never near the bottom.
C15_NearBottomByFraction ==
    (probe.fn = "nearBottom" /\ probe.done) =>
        /\ SameFraction(probe.in[1], probe.in[2]) => probe.out[1] = probe.out[2]
        /\ (probe.in[1].top = 0 /\ RangeOf(probe.in[1]) > 0) => ~probe.out[1]

-----------------------------------------------------------------------------
(* Bookmarks.  A bookmark is known by the title of the novel and the index   *)
(* of the chapter it was made on.  part_000 stores both (novelTitle,         *)
(* chapterIndex); reader.js stores the chapter index only, and novelTitle is *)
(* history there: the novel that was open when the bookmark was made.        *)

MaxStored == 2

Mark(title, index) == [novelTitle |-> title, chapterIndex |-> index]
Marks == {Mark(title, index) : title \in Titles, index \in 0..1}

\* the entries of a list
Elements(seq) == {seq[i] : i \in DOMAIN seq}

\* the least index of a sequence whose element is one of those wanted, 0 if
\* none
FindIndex(seq, wanted) ==
    LET I == {i \in DOMAIN seq : seq[i] \in wanted}
    IN IF I = {} THEN 0 ELSE CHOOSE i \in I : \A j \in I : i <= j

\* part_000: the list after toggleBookmark, for the novel nd on chapter cur;
\* reading the title of a chapter that does not exist throws before the push
toggleBookmark(bm, nd, cur) ==
    LET bookmarkIndex ==
            FindIndex(bm, {b \in Elements(bm) : b.novelTitle = nd.title /\ b.chapterIndex = cur})
    IN IF nd = NoNovel THEN bm
       ELSE IF bookmarkIndex > 0 THEN RemoveAt(bm, bookmarkIndex)
       ELSE IF ValidIndex(nd, cur) THEN Append(bm, Mark(nd.title, cur))
       ELSE bm

\* reader.js: the bookmark is looked up by its chapter index alone
R_toggleBookmark(bm, nd, cur) ==
    LET existingBookmark == FindIndex(bm, {b \in Elements(bm) : b.chapterIndex = cur})
    IN IF existingBookmark > 0 THEN RemoveAt(bm, existingBookmark)
       ELSE IF ValidIndex(nd, cur) THEN Append(bm, Mark(nd.title, cur))
       ELSE bm

\* toggleBookmark returns or throws before it reaches saveBookmarks
ToggleAborts(bm, nd, cur) ==
    \/ nd = NoNovel
    \/ /\ ~ValidIndex(nd, cur)
       /\ IF impl = "reader"
          THEN FindIndex(bm, {b \in Elements(bm) : b.chapterIndex = cur}) = 0
          ELSE FindIndex(bm, {b \in Elements(bm) : b.novelTitle = nd.title
                                                    /\ b.chapterIndex = cur}) = 0

\* part_000 init: this.bookmarks = JSON.parse(stored); reader.js never calls
\* its loadBookmarks
loadBookmarks(stored) == IF impl = "part" THEN stored ELSE <<>>

\* the (novelTitle, chapterIndex) pairs of a bookmark sequence
PairSet(bm) == {<<bm[i].novelTitle, bm[i].chapterIndex>> : i \in DOMAIN bm}
NoDuplicate(bm) ==
    \A i, j \in DOMAIN bm :
        (bm[i].novelTitle = bm[j].novelTitle /\ bm[i].chapterIndex = bm[j].chapterIndex)
            => i = j

\* Ctrl+B (part_000), B or F2 (reader.js, whose key handler returns while no
\* novel is loaded)
ToggleBookmark ==
    /\ impl = "reader" => novelData # NoNovel
    /\ bookmarks' = IF impl = "reader"
                    THEN R_toggleBookmark(bookmarks, novelData, currentChapter)
                    ELSE toggleBookmark(bookmarks, novelData, currentChapter)
    /\ storedBookmarks' =
            IF ToggleAborts(bookmarks, novelData, currentChapter) \/ storageFails
            THEN storedBookmarks ELSE bookmarks'
    /\ marksBefore' = [mem |-> PairSet(bookmarks), stored |-> PairSet(storedBookmarks),
                       at |-> <<novelData.title, currentChapter>>,
                       unique |-> NoDuplicate(bookmarks)]
    /\ Op("toggle", currentChapter)
    /\ UNCHANGED <<impl, classes, settings, storedSettings, probe, novelData, currentChapter, currentPosition, shown,
                   scrollTop, scrollEvt, btnBound, timers, progress, storageFails,
                   reads, autoCount>>

\* the page is reloaded: part_000 saves the progress on beforeunload, the
\* storage stays, and a new NovelReader is constructed and initialised
Reload ==
    /\ novelData' = NoNovel
    /\ currentChapter' = 0
    /\ currentPosition' = 0
    /\ shown' = -1
    /\ scrollTop' = 0
    /\ scrollEvt' = FALSE
    /\ btnBound' = FALSE
    /\ timers' = <<>>
    /\ reads' = <<>>
    /\ progress' = IF impl = "part" THEN saveProgress(S).prog ELSE progress
    /\ bookmarks' = loadBookmarks(storedBookmarks)
    /\ marksBefore' = NoToggle
    /\ autoCount' = 0
    /\ Op("reload", 0)
    /\ settings' = Startup(storedSettings).mem
    /\ storedSettings' = Startup(storedSettings).stored
    /\ classes' = Startup(storedSettings).cls
    /\ UNCHANGED <<impl, probe, storedBookmarks, storageFails>>

\* what the storage key holds when part_000 starts: any sequence of
\* bookmarks, as parsed
StoredSeqs == UNION {[1..n -> Marks] : n \in 0..MaxStored}

BookmarkInit ==
    /\ Init!1 /\ Init!2 /\ Init!3 /\ Init!4 /\ Init!5 /\ Init!6 /\ Init!7
    /\ Init!8 /\ Init!9 /\ Init!10 /\ Init!11 /\ Init!12 /\ Init!13 /\ Init!14
    /\ Init!15 /\ Init!18 /\ Init!19 /\ Init!20 /\ Init!21
    /\ storedBookmarks \in (IF impl = "part" THEN StoredSeqs ELSE {<<>>})
    /\ bookmarks = loadBookmarks(storedBookmarks)

BookmarkNext ==
    \/ \E file \in Files : SelectFile(file)
    \/ \E i \in 1..MaxReads : ReadDone(i)
    \/ NextClick
    \/ ToggleBookmark
    \/ Reload

SpecBookmarks == BookmarkInit /\ [][BookmarkNext]_vars

\* C16: in part_000 the bookmark list in memory holds at most one bookmark
\* per (novelTitle, chapterIndex) pair.
C16_OneBookmarkPerPair == impl = "part" => NoDuplicate(bookmarks)

\* C17: two toggles in a row on the same novel and chapter restore the
\* bookmark sets in memory and in the storage (stated for a list that held
\* no pair twice before the first toggle).
C17_ToggleTwiceRestores ==
    [][(/\ op.name = "toggle"
        /\ op'.name = "toggle"
        /\ Loaded
        /\ marksBefore.unique)
        => (/\ PairSet(bookmarks') = marksBefore.mem
            /\ PairSet(storedBookmarks') = marksBefore.stored)]_vars

\* C18: in reader.js a toggle leaves every stored bookmark of another novel
\* or another chapter in the stored record.
C18_OtherBookmarksKept ==
    [][(impl = "reader" /\ op'.name = "toggle")
        => \A p \in PairSet(storedBookmarks) :
              p # <<novelData.title, currentChapter>>
                  => p \in PairSet(storedBookmarks')]_vars

-----------------------------------------------------------------------------
(* Loads that fail: a session with scrolling, bookmarks and file loads *)

MaxMarks == 1

LoadNext ==
    \/ \E file \in Files : SelectFile(file)
    \/ \E i \in 1..MaxReads : ReadDone(i)
    \/ \E i \in 1..MaxReads, outcome \in FailOutcomes : ReadFails(i, outcome)
    \/ NextClick
    \/ ToggleBookmark /\ Len(bookmarks') <= MaxMarks
    \/ \E v \in ScrollStops(S) : UserScroll(v)
    \/ FireScroll
    \/ Tick

SpecLoad == Init /\ [][LoadNext]_vars

\* C19: a load that fails (the read fails, the document holds a parser
\* error, or no chapter is extracted) loads no novel and leaves the novel, the
\* current chapter, the scroll fraction, the bookmarks in memory and in the
\* storage, and the stored progress record exactly as they were.
C19_FailedLoadLeavesState ==
    [][op'.name = "loadFailed" =>
          UNCHANGED <<novelData, currentChapter, currentPosition, bookmarks,
                      storedBookmarks, progress>>]_vars

\* a load has just failed in a session that has a novel open at a later
\* chapter, scrolled down, with a bookmark and a stored progress record
C19_Witness ==
    /\ op.name = "loadFailed"
    /\ Loaded
    /\ currentChapter > 0
    /\ currentPosition > 0
    /\ bookmarks # <<>>
    /\ progress # NoRecord

-----------------------------------------------------------------------------
(* File validation on the two input paths *)

MAX_FILE_SIZE == 10 * 1024 * 1024
ALLOWED_MIME_TYPES == {"text/html", "application/xhtml+xml"}

MimeTypes == ALLOWED_MIME_TYPES \cup {"text/plain"}
FileNames == {"novel.html", "novel.htm", "novel.txt"}
FileSizes == {1024, MAX_FILE_SIZE, MAX_FILE_SIZE + 1}

\* a File object as the picker or the drop hands it over; doc is what its
\* text parses to
Uploads == [type : MimeTypes, name : FileNames, size : FileSizes, doc : Files]

\* String.prototype.includes / endsWith on the names and types above
Includes(str, part) == part = "html" /\ str \in {"text/html", "application/xhtml+xml"}
EndsWith(str, suffix) == <<str, suffix>> \in {<<"novel.html", ".html">>,
                                              <<"novel.htm", ".htm">>}

\* part_000
validateFile(file) ==
    IF file.type \notin ALLOWED_MIME_TYPES THEN FALSE
    ELSE IF file.size > MAX_FILE_SIZE THEN FALSE
    ELSE TRUE

\* reader.js processFile: the check before the FileReader is created
R_typeCheck(file) ==
    ~(/\ ~Includes(file.type, "html")
      /\ ~EndsWith(file.name, ".html")
      /\ ~EndsWith(file.name, ".htm"))

\* whether the file reaches the FileReader: part_000 handleFileSelect calls
\* processFile directly, handleDrop calls validateFile first; reader.js
\* checks in processFile on both paths
StartsRead(path, file) ==
    IF impl = "reader" THEN R_typeCheck(file)
    ELSE IF path = "handleDrop" THEN validateFile(file)
    ELSE TRUE

Input(path, file) ==
    /\ Len(reads) < MaxReads
    /\ reads' = IF StartsRead(path, file) THEN Append(reads, file.doc) ELSE reads
    /\ probe' = [fn |-> path, in |-> <<file>>, out |-> <<StartsRead(path, file)>>,
                 done |-> TRUE]
    /\ Op("input", 0)
    /\ autoCount' = 0
    /\ UNCHANGED <<impl, classes, settings, storedSettings, bookmarks, storedBookmarks, marksBefore, novelData,
                   currentChapter, currentPosition, shown, scrollTop, scrollEvt,
                   btnBound, timers, progress, storageFails>>

\* the file picker's change event, and a drop on the drop zone (handleDrop in
\* part_000, handleFileDrop in reader.js)
InputPaths == {"handleFileSelect", "handleDrop"}

InputNext ==
    \/ \E path \in InputPaths, file \in Uploads : Input(path, file)
    \/ \E i \in 1..MaxReads : ReadDone(i)
    \/ NextClick

SpecInput == Init /\ [][InputNext]_vars

\* the file the spec accepts: an HTML MIME type and a size within the cap
Acceptable(file) == file.type \in ALLOWED_MIME_TYPES /\ file.size <= MAX_FILE_SIZE

\* C20: on both input paths a file whose MIME type is not an HTML variant or
\* whose size exceeds MAX_FILE_SIZE is rejected before any state changes: no
\* read is started, and the novel, the current chapter and the stored records
\* are unchanged.
C20_InvalidFileRejected ==
    [][(op'.name = "input" /\ ~Acceptable(probe'.in[1])) =>
          /\ ~probe'.out[1]
          /\ UNCHANGED <<reads, novelData, currentChapter, progress,
                         storedBookmarks>>]_vars

-----------------------------------------------------------------------------
(* Settings across visits *)

SettingsNow ==
    [mem |-> settings, stored |-> storedSettings, threw |-> FALSE, cls |-> classes]

\* a settings command: what it was given and whether it threw are recorded
\* in probe
SettingsStep(fn, arg, ss) ==
    /\ settings' = ss.mem
    /\ storedSettings' = ss.stored
    /\ probe' = [fn |-> fn, in |-> <<arg>>, out |-> <<ss.threw>>, done |-> TRUE]
    /\ classes' = ss.cls
    /\ Op(fn, 0)
    /\ UNCHANGED <<impl, novelData, currentChapter, currentPosition, shown, scrollTop,
                   scrollEvt, btnBound, timers, progress, storageFails, reads,
                   autoCount, bookmarks, storedBookmarks, marksBefore>>

\* a click on a theme button
SetTheme(theme) == SettingsStep("setTheme", theme, setTheme(SettingsNow, theme))

\* a click on a font button
SetFont(font) == SettingsStep("setFont", font, setFont(SettingsNow, font))

\* an input event of the font-size slider
SetFontSize(size) ==
    SettingsStep("setFontSize", size,
                 IF impl = "reader" THEN setFontSize(SettingsNow, size)
                                    ELSE updateFontSize(SettingsNow, size))

ThemeArgs == THEMES \cup {"neon"}
FontArgs == FONTS \cup {"comic"}
SizeArgs == {Num(n) : n \in {MIN_FONT_SIZE - 1, MIN_FONT_SIZE, 18, MAX_FONT_SIZE,
                             MAX_FONT_SIZE + 1}}

\* what the settings key may hold when the page is loaded
StoredTexts ==
    {Absent, Invalid, JsNull} \cup
    [theme : {"light", "dark", "neon", Undefined},
     font : {"serif", "mono", "comic", Undefined},
     fontSize : SizeArgs \cup {JsNull, Missing}]

SettingsInit ==
    /\ Init!1 /\ Init!2 /\ Init!3 /\ Init!4 /\ Init!5 /\ Init!6 /\ Init!7
    /\ Init!8 /\ Init!9 /\ Init!10 /\ Init!11 /\ Init!12 /\ Init!13 /\ Init!14
    /\ Init!16 /\ Init!17 /\ Init!18
    /\ \E text \in StoredTexts :
          /\ settings = Startup(text).mem
          /\ storedSettings = Startup(text).stored
          /\ classes = Startup(text).cls
          /\ probe = [fn |-> "loadSettings", in |-> <<text>>,
                      out |-> <<IF impl = "reader" THEN R_loadSettings(text)
                                                   ELSE loadSettings(text)>>,
                      done |-> TRUE]

SettingsNext ==
    \/ \E theme \in ThemeArgs : SetTheme(theme)
    \/ \E font \in FontArgs : SetFont(font)
    \/ \E size \in SizeArgs : SetFontSize(size)
    \/ Reload

SpecSettings == SettingsInit /\ [][SettingsNext]_vars

\* the theme-* and font-* classes among the classes of the themed element
ThemeClassesOn == {c \in classes : \E theme \in ThemeArgs \cup {Undefined} : c = ThemeClass(theme)}
FontClassesOn == {c \in classes : \E font \in FontArgs \cup {Undefined} : c = FontClass(font)}

\* C40: in reader.js, after a setTheme call with a valid theme the document
\* root carries exactly one theme-* class, the class of the theme just set;
\* after a setFont call with a valid font it carries exactly one font-* class,
\* the class of the font just set
C40_OneThemeClass ==
    [][/\ (impl = "reader" /\ op'.name = "setTheme" /\ probe'.in[1] \in THEMES) =>
            ThemeClassesOn' = {ThemeClass(probe'.in[1])}
       /\ (impl = "reader" /\ op'.name = "setFont" /\ probe'.in[1] \in FONTS) =>
            FontClassesOn' = {FontClass(probe'.in[1])}]_vars

ValidSettings(st) ==
    /\ st # JsNull
    /\ st.theme \in THEMES
    /\ st.font \in FONTS
    /\ IsNum(st.fontSize)
    /\ st.fontSize.num \in MIN_FONT_SIZE..MAX_FONT_SIZE

\* C22: in every reachable state the settings in memory have a theme of
\* THEMES, a font of FONTS and an integer font size from 12 to 24, whatever
\* the storage held at startup and whatever the commands were given.
C22_SettingsValid == ValidSettings(settings)

-----------------------------------------------------------------------------
(* Loading the three records from whatever text the storage holds *)

JsList(seq) == [list |-> seq]

\* value || 0
OrZero(v) == IF IsNum(v) THEN v.num ELSE 0

\* part_000 loadProgress on the text under the key: JSON.parse throws on an
\* invalid text and data.novelTitle throws on null, both inside the try
loadProgressFrom(s, text) ==
    IF text = Absent \/ text = Invalid \/ text = JsNull THEN s
    ELSE IF text.novelTitle = s.nd.title
         THEN [s EXCEPT !.cur = OrZero(text.currentChapter),
                        !.pos = OrZero(text.currentPosition)]
         ELSE s

\* reader.js loadReadingProgress on the text under the key
loadReadingProgressFrom(s, text) ==
    IF text = Absent \/ text = Invalid \/ text = JsNull THEN s
    ELSE IF text.novelTitle = s.nd.title
         THEN LET s1 == [s EXCEPT !.cur = OrZero(text.currentChapter),
                                  !.pos = OrZero(text.currentPosition)]
                  s2 == goToChapter(s1, s1.cur)
              IN IF s2.pos > 0 THEN R_restoreScrollPosition(s2) ELSE s2
         ELSE s

\* loadBookmarks on the text under the key (the same method in both files):
\* this.bookmarks afterwards
loadBookmarksFrom(text) ==
    IF text = Absent THEN JsList(<<>>)
    ELSE IF text = Invalid THEN JsList(<<>>)
    ELSE text

SettingsTexts == StoredTexts
ProgressTexts ==
    {Absent, Invalid, JsNull} \cup
    [novelTitle : Titles,
     currentChapter : {Num(0), Num(1), Missing},
     currentPosition : {Num(0), Num(SCALE \div 2), Missing}]
BookmarkTexts == {Absent, Invalid, JsNull} \cup {JsList(q) : q \in StoredSeqs}

Loaders == {"loadSettings", "loadProgress", "loadBookmarks"}
TextsOf(fn) == IF fn = "loadSettings" THEN SettingsTexts
               ELSE IF fn = "loadProgress" THEN ProgressTexts
               ELSE BookmarkTexts

\* the novel whose load reaches the progress loader: processFile has shown
\* chapter 0
Opened == [title |-> "Foo", n |-> MaxChapters]
AfterDisplay ==
    IF impl = "reader" THEN R_displayChapter([S EXCEPT !.nd = Opened], 0)
    ELSE displayChapter([S EXCEPT !.nd = Opened, !.cur = 0, !.pos = 0], 0)

RecordsInit ==
    /\ Init!1 /\ Init!2 /\ Init!3 /\ Init!4 /\ Init!5 /\ Init!6 /\ Init!7
    /\ Init!8 /\ Init!9 /\ Init!10 /\ Init!11 /\ Init!12 /\ Init!13 /\ Init!14
    /\ Init!16 /\ Init!17 /\ Init!18 /\ Init!19 /\ Init!20 /\ Init!21
    /\ \E fn \in Loaders : \E text \in TextsOf(fn) :
          probe = [fn |-> fn, in |-> <<text>>, out |-> <<>>, done |-> FALSE]

\* the loader runs on the text; out is the value in memory afterwards
LoadRecord ==
    /\ probe.fn \in Loaders
    /\ ~probe.done
    /\ LET text == probe.in[1]
           p == IF impl = "reader" THEN loadReadingProgressFrom(AfterDisplay, text)
                                   ELSE loadProgressFrom(AfterDisplay, text)
       IN probe' = [probe EXCEPT
            !.out = IF probe.fn = "loadSettings"
                    THEN <<IF impl = "reader" THEN R_loadSettings(text)
                                              ELSE loadSettings(text)>>
                    ELSE IF probe.fn = "loadProgress"
                    THEN <<[currentChapter |-> p.cur, currentPosition |-> p.pos]>>
                    ELSE <<loadBookmarksFrom(text)>>,
            !.done = TRUE]
    /\ UNCHANGED <<impl, classes, novelData, currentChapter, currentPosition, shown, scrollTop,
                   scrollEvt, btnBound, timers, progress, storageFails, reads, op,
                   autoCount, bookmarks, storedBookmarks, marksBefore, settings,
                   storedSettings>>

SpecRecords == RecordsInit /\ [][LoadRecord]_vars

\* the value a loader leaves in memory when it has nothing to load
DefaultOf(fn) ==
    IF fn = "loadSettings" THEN DefaultSettings
    ELSE IF fn = "loadProgress" THEN [currentChapter |-> 0, currentPosition |-> 0]
    ELSE JsList(<<>>)

\* C21: loading a stored text that is invalid JSON, or JSON of the wrong shape
\* such as null, leaves the value in memory at its default: the default
\* settings, chapter 0 at fraction 0, the empty bookmark list.
C21_MalformedGivesDefault ==
    (probe.fn \in Loaders /\ probe.done /\ probe.in[1] \in {Invalid, JsNull})
        => probe.out[1] = DefaultOf(probe.fn)

\* C23: with no Settings record in the storage, loadSettings returns exactly
\* {theme: light, font: serif, fontSize: 18}, in both implementations.
C23_DefaultsWhenAbsent ==
    (probe.fn = "loadSettings" /\ probe.done /\ probe.in[1] = Absent)
        => probe.out[1] = [theme |-> "light", font |-> "serif", fontSize |-> Num(18)]

\* loadSettings has run on a storage without the settings key
C23_Witness ==
    probe.fn = "loadSettings" /\ probe.done /\ probe.in[1] = Absent

\* what loadSettings of the running implementation returns for a text
LoadSettingsOf(text) ==
    IF impl = "reader" THEN R_loadSettings(text) ELSE loadSettings(text)

\* the command of the step was given an argument its guard lets through
Accepted(fn, arg) ==
    \/ fn = "setTheme" /\ arg \in THEMES
    \/ fn = "setFont" /\ arg \in FONTS
    \/ fn = "setFontSize"

\* C24: after an accepted set-theme, set-font or set-font-size command whose
\* write succeeds, the stored Settings record is the one of the settings in
\* memory and loadSettings on it returns those settings; a rejected command
\* changes neither the settings in memory nor the stored record.
C24_SettingsPersisted ==
    [][op'.name \in {"setTheme", "setFont", "setFontSize"} =>
          IF Accepted(op'.name, probe'.in[1])
          THEN ~storageFails => LoadSettingsOf(storedSettings') = settings'
          ELSE UNCHANGED <<settings, storedSettings>>]_vars

-----------------------------------------------------------------------------
(* Storage writes that fail *)

\* localStorage.setItem starts or stops throwing
StorageToggle ==
    /\ storageFails' = ~storageFails
    /\ Op("storageToggle", 0)
    /\ UNCHANGED <<impl, classes, settings, storedSettings, probe, bookmarks, storedBookmarks,
                   marksBefore, novelData, currentChapter, currentPosition, shown,
                   scrollTop, scrollEvt, btnBound, timers, progress, reads, autoCount>>

StorageNext ==
    \/ \E file \in Files : SelectFile(file)
    \/ \E i \in 1..MaxReads : ReadDone(i)
    \/ NextClick
    \/ ToggleBookmark /\ Len(bookmarks') <= MaxMarks
    \/ SetFontSize(Num(MAX_FONT_SIZE))
    \/ StorageToggle

SpecStorage == Init /\ [][StorageNext]_vars

\* the part of a session that is in memory
Mem(s) == [nd |-> s.nd, cur |-> s.cur, pos |-> s.pos, shown |-> s.shown,
           top |-> s.top, evt |-> s.evt, btn |-> s.btn, tm |-> s.tm]

\* what each operation that ends in a storage write leaves in memory, run on
\* the current state: chapter changes, scroll handling at each position, a
\* load of each file, each preference command, the bookmark toggle
MemResults ==
    [previous |-> Mem(IF impl = "reader" THEN goToChapter(S, currentChapter - 1)
                                         ELSE previousChapter(S)),
     next |-> Mem(IF impl = "reader" THEN goToChapter(S, currentChapter + 1)
                                     ELSE nextChapter(S)),
     toc |-> [i \in 0..(MaxChapters - 1) |->
                Mem(IF impl = "reader" THEN goToChapter(S, i) ELSE displayChapter(S, i))],
     chapterEnd |-> Mem(handleChapterEndNavigation(S)),
     debounced |-> [v \in ScrollStops(S) |->
                Mem(IF impl = "reader" THEN handleScrollDebounced([S EXCEPT !.top = v])
                                       ELSE scrollCallback([S EXCEPT !.top = v]))],
     autoAdvance |-> Mem(autoAdvanceCallback(S)),
     ends |-> <<Mem(goToBeginning(S)), Mem(goToEnd(S))>>,
     load |-> [file \in Files |->
                Mem(IF impl = "reader" THEN R_processFileOutcome(S, file, "ok")
                                       ELSE processFileOutcome(S, file, "ok"))],
     theme |-> [theme \in ThemeArgs |->
                [mem |-> setTheme(SettingsNow, theme).mem,
                 threw |-> setTheme(SettingsNow, theme).threw]],
     font |-> [font \in FontArgs |->
                [mem |-> setFont(SettingsNow, font).mem,
                 threw |-> setFont(SettingsNow, font).threw]],
     size |-> [size \in SizeArgs |->
                IF impl = "reader"
                THEN [mem |-> setFontSize(SettingsNow, size).mem,
                      threw |-> setFontSize(SettingsNow, size).threw]
                ELSE [mem |-> updateFontSize(SettingsNow, size).mem,
                      threw |-> updateFontSize(SettingsNow, size).threw]],
     toggle |-> IF impl = "reader"
                THEN R_toggleBookmark(bookmarks, novelData, currentChapter)
                ELSE toggleBookmark(bookmarks, novelData, currentChapter)]

\* C25: a storage write that fails changes nothing in memory and is not
\* fatal: whether setItem throws or not, every operation that ends in a write
\* leaves the same state in memory (compared across the step that flips the
\* failure, which changes nothing else); and a step taken while setItem
\* throws leaves all three stored records as they were.
C25_WriteFailureHarmless ==
    [][/\ op'.name = "storageToggle" => MemResults' = MemResults
       /\ (storageFails /\ op'.name \notin {"storageToggle", "reload"})
             => UNCHANGED <<progress, storedBookmarks, storedSettings>>]_vars

-----------------------------------------------------------------------------
(* Commands while no novel is loaded *)

\* reader.js smoothScroll: content.scrollBy by a share of the viewport height
smoothScroll(s, tenths) == setScrollTop(s, s.top + (ClientHeight * tenths) \div 10)

\* the switch of handleKeyboard; the bookmark key is handled in KeyDown
keySwitch(s, key) ==
    IF impl = "reader"
    THEN IF key = "arrowleft" THEN goToChapter(s, s.cur - 1)
         ELSE IF key = "arrowright" THEN goToChapter(s, s.cur + 1)
         ELSE IF key = "pagedown" THEN smoothScroll(s, 8)
         ELSE IF key = "pageup" THEN smoothScroll(s, -8)
         ELSE IF key = "home" THEN goToBeginning(s)
         ELSE IF key = "end" THEN goToEnd(s)
         ELSE s
    ELSE IF key = "arrowleft" THEN previousChapter(s)
         ELSE IF key = "arrowright" THEN nextChapter(s)
         ELSE s

\* a slip: the key handler without its first line
handleKeyboard_unguarded(s, key) == keySwitch(s, key)

\* handleKeyboard: if (!this.novelData) return
handleKeyboard(s, key) == IF s.nd = NoNovel THEN s ELSE keySwitch(s, key)

Keys == {"arrowleft", "arrowright", "pagedown", "pageup", "home", "end", "b"}

\* a keydown event; b (with Ctrl in part_000) reaches toggleBookmark
KeyDown(key) ==
    /\ CanSwitch
    /\ Commit(handleKeyboard(S, key))
    /\ LET toggles == key = "b" /\ novelData # NoNovel
       IN /\ bookmarks' =
                IF ~toggles THEN bookmarks
                ELSE IF impl = "reader"
                     THEN R_toggleBookmark(bookmarks, novelData, currentChapter)
                     ELSE toggleBookmark(bookmarks, novelData, currentChapter)
          /\ storedBookmarks' =
                IF ~toggles \/ storageFails
                   \/ ToggleAborts(bookmarks, novelData, currentChapter)
                THEN storedBookmarks ELSE bookmarks'
    /\ Op("key", 0)
    /\ autoCount' = 0
    /\ UNCHANGED <<impl, classes, settings, storedSettings, probe, marksBefore, storageFails,
                   reads>>

\* what exportNovel reads, and the download it hands to the browser
ExportView ==
    [nd |-> novelData, cur |-> currentChapter, pos |-> currentPosition,
     bm |-> bookmarks, st |-> settings, out |-> <<>>]

\* the bookmarks that carry the novel's title
ownBookmarks(x) == SelectSeq(x.bm, LAMBDA b : b.novelTitle = x.nd.title)

\* a slip exportNovel could have: the filtered list replaces the bookmark list
exportNovel_filtering(x, threw) ==
    IF x.nd = NoNovel \/ threw THEN x
    ELSE [x EXCEPT !.bm = ownBookmarks(x),
                   !.out = <<[novel |-> x.nd, bookmarks |-> ownBookmarks(x),
                              progress |-> <<x.cur, x.pos>>]>>]

\* part_000 exportNovel; threw: a browser call of the try block throws and
\* the catch block reports it
exportNovel(x, threw) ==
    IF x.nd = NoNovel \/ threw THEN x
    ELSE [x EXCEPT !.out = <<[novel |-> x.nd, bookmarks |-> ownBookmarks(x),
                              progress |-> <<x.cur, x.pos>>]>>]

\* reader.js exportNovel: the page of generateExportHTML, made of the novel
\* and the font size
R_exportNovel(x, threw) ==
    IF x.nd = NoNovel \/ threw THEN x
    ELSE [x EXCEPT !.out = <<[novel |-> x.nd, fontSize |-> x.st.fontSize]>>]

\* the export button; op.idx tells how it ended: 0 no novel, 1 a download,
\* 2 the catch block
ExportClick ==
    \E threw \in BOOLEAN :
        LET x == IF impl = "reader" THEN R_exportNovel(ExportView, threw)
                 ELSE exportNovel(ExportView, threw)
        IN /\ novelData' = x.nd
           /\ currentChapter' = x.cur
           /\ currentPosition' = x.pos
           /\ bookmarks' = x.bm
           /\ settings' = x.st
           /\ probe' = [fn |-> "export", in |-> <<>>, out |-> x.out, done |-> TRUE]
           /\ Op("export", IF novelData = NoNovel THEN 0 ELSE IF threw THEN 2 ELSE 1)
           /\ UNCHANGED <<impl, classes, storedSettings, storedBookmarks, marksBefore, shown,
                          scrollTop, scrollEvt, btnBound, timers, progress,
                          storageFails, reads, autoCount>>

IdleNext ==
    \/ \E file \in Files : SelectFile(file)
    \/ \E i \in 1..MaxReads : ReadDone(i)
    \/ PreviousClick
    \/ NextClick
    \/ \E key \in Keys : KeyDown(key) /\ Len(bookmarks') <= MaxMarks
    \/ ExportClick
    \/ Reload

SpecIdle == Init /\ [][IdleNext]_vars

\* C26: while no novel is loaded, previous-chapter, next-chapter,
\* toggle-bookmark, export, scroll-to-top, scroll-to-bottom and relative-scroll
\* change nothing: the novel, the current chapter, the scroll fraction, the
\* bookmark list and the stored Progress and Bookmarks records stay as they are.
C26_NoNovelNoOp ==
    [][(novelData = NoNovel /\ op'.name \in {"previous", "next", "key", "export"}) =>
          UNCHANGED <<novelData, currentChapter, currentPosition, scrollTop, bookmarks,
                      progress, storedBookmarks>>]_vars

\* a key command has run with no novel loaded, on a later visit whose storage
\* holds a Progress record and bookmarks
C26_Witness ==
    /\ op.name = "key"
    /\ novelData = NoNovel
    /\ progress # NoRecord
    /\ storedBookmarks # <<>>

\* C34: exportNovel changes none of its inputs, whether it succeeds or fails:
\* the novel, the current chapter, the scroll fraction, the bookmark list, the
\* settings and the three stored records are after an export what they were
\* before; and an export with zero bookmarks whose browser calls do not throw
\* hands over a download
C34_ExportReadsOnly ==
    [][op'.name = "export" =>
          /\ UNCHANGED <<novelData, currentChapter, currentPosition, scrollTop,
                         bookmarks, settings, progress, storedBookmarks,
                         storedSettings>>
          /\ (op'.idx = 1 /\ bookmarks = <<>>) => probe'.out # <<>>]_vars

\* a novel with no bookmark of its own has been exported while the list holds
\* a bookmark of another novel
C34_Witness ==
    /\ op.name = "export" /\ op.idx = 1
    /\ novelData # NoNovel
    /\ bookmarks # <<>>
    /\ \A i \in DOMAIN bookmarks : bookmarks[i].novelTitle # novelData.title

-----------------------------------------------------------------------------
(* Chapter extraction and sanitisation.  A text (markup, a title, an       *)
(* attribute value) is a sequence of tokens: tags, words, and the          *)
(* characters the code looks at one by one.                                *)

MaxElements == 2
MaxFragment == 4

Space == " "
Newline == "\n"
Whitespace == {Space, Newline}

\* String.prototype.trim
RECURSIVE TrimLeft(_)
TrimLeft(str) ==
    IF str # <<>> /\ Head(str) \in Whitespace THEN TrimLeft(Tail(str)) ELSE str
RECURSIVE TrimRight(_)
TrimRight(str) ==
    IF str # <<>> /\ str[Len(str)] \in Whitespace
    THEN TrimRight(SubSeq(str, 1, Len(str) - 1)) ELSE str
Trim(str) == TrimRight(TrimLeft(str))

\* str.replace(/[-_]/g, ' ')
ReplaceDashes(str) ==
    [i \in DOMAIN str |-> IF str[i] \in {"-", "_"} THEN Space ELSE str[i]]

OpenTag(name) == IF name = "script" THEN "<script>"
                 ELSE IF name = "style" THEN "<style>"
                 ELSE IF name = "iframe" THEN "<iframe>"
                 ELSE IF name = "object" THEN "<object>"
                 ELSE "<embed>"
CloseTag(name) == IF name = "script" THEN "</script>"
                  ELSE IF name = "style" THEN "</style>"
                  ELSE IF name = "iframe" THEN "</iframe>"
                  ELSE IF name = "object" THEN "</object>"
                  ELSE "</embed>"
DangerousNames == {"script", "style", "iframe", "object", "embed"}
DangerousOpen == {OpenTag(name) : name \in DangerousNames}
DangerousClose == {CloseTag(name) : name \in DangerousNames}
NameOf(tag) == CHOOSE name \in DangerousNames : OpenTag(name) = tag

\* the least index from i on that holds the token, 0 if none
RECURSIVE IndexFrom(_, _, _)
IndexFrom(str, token, i) ==
    IF i > Len(str) THEN 0
    ELSE IF str[i] = token THEN i
    ELSE IndexFrom(str, token, i + 1)

\* reader.js: content.replace(/<script[^>]*>.*?<\/script>/gi, ''); the dot
\* matches no line terminator, so a match ends at the first closing tag
\* and exists only when no newline lies before it
RECURSIVE ReplaceScripts(_, _)
ReplaceScripts(str, i) ==
    IF i > Len(str) THEN <<>>
    ELSE LET j == IndexFrom(str, "</script>", i + 1)
             n == IndexFrom(str, Newline, i + 1)
         IN IF str[i] = "<script>" /\ j > 0 /\ (n = 0 \/ n > j)
            THEN ReplaceScripts(str, j + 1)
            ELSE <<str[i]>> \o ReplaceScripts(str, i + 1)

\* The text is one string: where a removal leaves "<scr" right before
\* "ipt>", the two read as the tag "<script>"
RECURSIVE Join(_)
Join(str) ==
    IF Len(str) < 2 THEN str
    ELSE IF str[1] = "<scr" /\ str[2] = "ipt>"
         THEN <<"<script>">> \o Join(SubSeq(str, 3, Len(str)))
         ELSE <<str[1]>> \o Join(Tail(str))

R_sanitizeContent(content) == Trim(Join(ReplaceScripts(content, 1)))

\* part_000 without DOMPurify: the markup is parsed into a div, every
\* script, style, iframe, object and embed element is removed with what it
\* holds, and the div is serialised.  The parser ends an unclosed element at
\* the end of the markup, takes embed as an empty element, and drops a
\* closing tag that closes nothing.
\* the tokens that end with '>'
ClosesTag(token) == token \notin {Newline, "x", "a", "<scr", "ipt&gt;"}
RECURSIVE TagEndFrom(_, _)
TagEndFrom(str, i) ==
    IF i > Len(str) THEN 0
    ELSE IF ClosesTag(str[i]) THEN i
    ELSE TagEndFrom(str, i + 1)

\* "<scr" begins a start tag that runs to the next '>' whatever lies between
\* (a '<' there is part of the tag's name or of an attribute's); it names no
\* element to remove and is kept with what it holds, and it is dropped with
\* the rest of the markup if no '>' follows.  A '>' in text is written "&gt;".
RECURSIVE RemoveDangerous(_, _)
RemoveDangerous(str, i) ==
    IF i > Len(str) THEN <<>>
    ELSE IF str[i] = "<scr"
         THEN LET j == TagEndFrom(str, i + 1)
              IN IF j = 0 THEN <<>>
                 ELSE SubSeq(str, i, j) \o RemoveDangerous(str, j + 1)
    ELSE IF str[i] = "ipt>" THEN <<"ipt&gt;">> \o RemoveDangerous(str, i + 1)
    ELSE IF str[i] \in DangerousOpen
         THEN IF str[i] = "<embed>" THEN RemoveDangerous(str, i + 1)
              ELSE LET j == IndexFrom(str, CloseTag(NameOf(str[i])), i + 1)
                   IN IF j = 0 THEN <<>> ELSE RemoveDangerous(str, j + 1)
         ELSE IF str[i] \in DangerousClose THEN RemoveDangerous(str, i + 1)
         ELSE <<str[i]>> \o RemoveDangerous(str, i + 1)

sanitizeContent(html) == RemoveDangerous(html, 1)

Sanitize(html) ==
    IF impl = "reader" THEN R_sanitizeContent(html) ELSE sanitizeContent(html)

\* Elements of a document, in document order.  cls: the class attribute
\* contains "chapter"; id, dataTitle, title: attribute values (<<>> when the
\* attribute is missing); heading: level and text of the first heading inside
\* (level 0: none); text: the markup after it; children: the elements
\* inside it, after the text.
NoHeading == [level |-> 0, text |-> <<>>]
Ids == {<<>>, <<"chapter", "-", "1">>}
Script == <<"a", "<script>", "x", "</script>">>
\* what decides the selector: tag, class and id
Shapes ==
    {s \in [tag : {"section", "div", "article"}, cls : BOOLEAN, id : Ids] :
        s.tag = "article" => ~s.cls}
\* what decides the title and the content
Profiles ==
    {[heading |-> NoHeading, dataTitle |-> <<>>, title |-> <<>>, text |-> <<>>],
     [heading |-> NoHeading, dataTitle |-> <<>>, title |-> <<>>, text |-> Script],
     [heading |-> [level |-> 2, text |-> <<Space, "One", Space>>],
      dataTitle |-> <<"my", "_", "title">>, title |-> <<>>, text |-> Script],
     [heading |-> [level |-> 5, text |-> <<"Five">>],
      dataTitle |-> <<>>, title |-> <<>>, text |-> <<>>],
     [heading |-> NoHeading, dataTitle |-> <<"my", "_", "title">>, title |-> <<"T">>,
      text |-> Script],
     [heading |-> NoHeading, dataTitle |-> <<>>, title |-> <<"T">>, text |-> Script]}
ChapterElements ==
    {[tag |-> s.tag, cls |-> s.cls, id |-> s.id, dataTitle |-> p.dataTitle,
      title |-> p.title, heading |-> p.heading, text |-> p.text,
      children |-> <<>>] :
        s \in Shapes, p \in Profiles}
Paragraphs ==
    [tag : {"p"}, cls : {FALSE}, id : {<<>>}, dataTitle : {<<>>}, title : {<<>>},
     heading : {NoHeading}, text : {<<>>, Script}, children : {<<>>}]
Documents == UNION {[1..n -> ChapterElements \cup Paragraphs] : n \in 0..MaxElements}

HeadingTag(level) == IF level = 2 THEN "h2" ELSE "h5"
\* the concatenation of the entries of a sequence of sequences
RECURSIVE Flatten(_)
Flatten(seqs) == IF seqs = <<>> THEN <<>> ELSE Head(seqs) \o Flatten(Tail(seqs))

RECURSIVE InnerHTML(_), BodyHTML(_)
\* element.innerHTML
InnerHTML(el) ==
    (IF el.heading.level = 0 THEN <<>>
     ELSE <<"<" \o HeadingTag(el.heading.level) \o ">">> \o el.heading.text
          \o <<"</" \o HeadingTag(el.heading.level) \o ">">>)
    \o el.text \o BodyHTML(el.children)
\* body.innerHTML: the markup of a sequence of sibling nodes
BodyHTML(doc) ==
    IF doc = <<>> THEN <<>>
    ELSE IF Head(doc).tag = "#text" THEN Head(doc).text \o BodyHTML(Tail(doc))
    ELSE <<"<" \o Head(doc).tag \o ">">> \o InnerHTML(Head(doc))
         \o <<"</" \o Head(doc).tag \o ">">> \o BodyHTML(Tail(doc))

\* the elements of a document in document order, each followed by the
\* elements inside it (elements are nested one level deep at most)
Preorder(doc) == Flatten([i \in DOMAIN doc |-> <<doc[i]>> \o doc[i].children])

\* CONFIG.SELECTORS by position.  The last two ('#content section',
\* '#main section') select sections only, and any section is taken by the
\* sixth selector first, so they match nothing when they are reached.
SELECTORS == 1..8
IdHasChapter(el) == \E i \in DOMAIN el.id : el.id[i] = "chapter"
Selects(selector, el) ==
    IF selector = 1 THEN el.tag = "section" /\ el.cls
    ELSE IF selector = 2 THEN el.tag = "div" /\ el.cls
    ELSE IF selector = 3 THEN el.tag = "section" /\ IdHasChapter(el)
    ELSE IF selector = 4 THEN el.tag = "div" /\ IdHasChapter(el)
    ELSE IF selector = 5 THEN el.tag = "article"
    ELSE IF selector = 6 THEN el.tag = "section"
    ELSE FALSE

\* doc.querySelectorAll(selector): the matching elements in document order
querySelectorAll(doc, selector) ==
    SelectSeq(Preorder(doc), LAMBDA el : Selects(selector, el))

\* part_000
extractChapterTitle(element, index) ==
    IF element.heading.level \in 1..6 THEN Trim(element.heading.text)
    ELSE LET titleAttr == IF element.dataTitle # <<>> THEN element.dataTitle
                          ELSE IF element.title # <<>> THEN element.title
                          ELSE element.id
         IN IF titleAttr # <<>> THEN Trim(ReplaceDashes(titleAttr))
            ELSE <<"Chapter", Space, ToString(index + 1)>>

\* reader.js: el.querySelector('h1,h2,h3,h4')?.textContent?.trim() || `Chapter n`
R_chapterTitle(el, index) ==
    IF el.heading.level \in 1..4 /\ Trim(el.heading.text) # <<>>
    THEN Trim(el.heading.text)
    ELSE <<"Chapter", Space, ToString(index + 1)>>

Chapter(title, content) == [title |-> title, content |-> content]

\* part_000: the loop over the selectors from the given one on; index is
\* zero-based as in forEach
RECURSIVE extractFrom(_, _)
extractFrom(doc, selector) ==
    IF selector \notin SELECTORS THEN <<>>
    ELSE LET elements == querySelectorAll(doc, selector)
         IN IF Len(elements) > 0
            THEN [i \in 1..Len(elements) |->
                    Chapter(extractChapterTitle(elements[i], i - 1),
                            sanitizeContent(InnerHTML(elements[i])))]
            ELSE extractFrom(doc, selector + 1)

\* a slip the fallback could have: the body is taken as it is
extractChapters_raw(doc) ==
    LET chapters == extractFrom(doc, 1)
    IN IF Len(chapters) = 0
       THEN <<Chapter(<<"Chapter", Space, "1">>, BodyHTML(doc))>>
       ELSE chapters

extractChapters(doc) ==
    LET chapters == extractFrom(doc, 1)
    IN IF Len(chapters) = 0
       THEN <<Chapter(<<"Chapter", Space, "1">>, sanitizeContent(BodyHTML(doc)))>>
       ELSE chapters

\* reader.js: the first selector with a match ends the loop; an element is
\* pushed only if (title && content)
\* the positions of the elements that pass the test (title && content): the
\* title is never empty, the content is the element's innerHTML
pushed(elements) ==
    SelectSeq([i \in 1..Len(elements) |-> i], LAMBDA i : InnerHTML(elements[i]) # <<>>)

RECURSIVE R_extractFrom(_, _)
R_extractFrom(doc, selector) ==
    IF selector \notin SELECTORS THEN <<>>
    ELSE LET elements == querySelectorAll(doc, selector)
             at == pushed(elements)
         IN IF Len(elements) > 0
            THEN [k \in 1..Len(at) |->
                    Chapter(R_chapterTitle(elements[at[k]], at[k] - 1),
                            R_sanitizeContent(InnerHTML(elements[at[k]])))]
            ELSE R_extractFrom(doc, selector + 1)

\* reader.js: the chapters of parseNovelHTML; the documents have no title
\* element, so the fallback chapter is called 'Novel Content'
parseNovelHTML(doc) ==
    LET chapters == R_extractFrom(doc, 1)
    IN IF Len(chapters) = 0
       THEN <<Chapter(<<"Novel", Space, "Content">>, R_sanitizeContent(BodyHTML(doc)))>>
       ELSE chapters

Extract(doc) == IF impl = "reader" THEN parseNovelHTML(doc) ELSE extractChapters(doc)

ExtractInit ==
    /\ Init!1 /\ Init!2 /\ Init!3 /\ Init!4 /\ Init!5 /\ Init!6 /\ Init!7
    /\ Init!8 /\ Init!9 /\ Init!10 /\ Init!11 /\ Init!12 /\ Init!13 /\ Init!14
    /\ Init!16 /\ Init!17 /\ Init!18 /\ Init!19 /\ Init!20 /\ Init!21
    /\ \E doc \in Documents :
         probe = [fn |-> "extract", in |-> <<doc>>, out |-> <<>>, done |-> FALSE]

\* the file's document is parsed and its chapters extracted
ExtractChapters ==
    /\ probe.fn = "extract" /\ ~probe.done
    /\ probe' = [probe EXCEPT !.out = <<Extract(probe.in[1])>>, !.done = TRUE]
    /\ Op("extract", 0)
    /\ UNCHANGED <<impl, classes, novelData, currentChapter, currentPosition, shown, scrollTop,
                   scrollEvt, btnBound, timers, progress, storageFails, reads,
                   autoCount, bookmarks, storedBookmarks, marksBefore, settings,
                   storedSettings>>

SpecExtract == ExtractInit /\ [][ExtractChapters]_vars

\* the first selector of CONFIG.SELECTORS with a match, 0 if none has one
FirstSelector(doc) ==
    IF \E selector \in SELECTORS : Len(querySelectorAll(doc, selector)) > 0
    THEN CHOOSE selector \in SELECTORS :
           /\ Len(querySelectorAll(doc, selector)) > 0
           /\ \A earlier \in 1..(selector - 1) : Len(querySelectorAll(doc, earlier)) = 0
    ELSE 0
Matched(doc) == querySelectorAll(doc, FirstSelector(doc))
Extracted == probe.fn = "extract" /\ probe.done

\* one chapter per matched element, in document order, each holding the
\* sanitised markup of its element
OnePerElement(elements, chapters) ==
    /\ Len(chapters) = Len(elements)
    /\ \A i \in 1..Len(elements) :
         chapters[i].content = Sanitize(InnerHTML(elements[i]))

\* C27: when some selector matches, extraction returns exactly one chapter per
\* element matched by the first selector with a match, in document order: the
\* i-th chapter holds the sanitised markup of the i-th matched element, none
\* is dropped and none comes from elsewhere
C27_OneChapterPerElement ==
    (Extracted /\ FirstSelector(probe.in[1]) # 0) =>
        OnePerElement(Matched(probe.in[1]), probe.out[1])

\* C28: when no selector matches, extraction returns exactly one chapter and
\* its content is the sanitised markup of the whole body
C28_BodyFallback ==
    (Extracted /\ FirstSelector(probe.in[1]) = 0) =>
        /\ Len(probe.out[1]) = 1
        /\ probe.out[1][1].content = Sanitize(BodyHTML(probe.in[1]))

\* C28: a document without a matching element whose body holds a script has
\* been extracted
C28_Witness ==
    /\ Extracted
    /\ FirstSelector(probe.in[1]) = 0
    /\ \E i \in DOMAIN BodyHTML(probe.in[1]) : BodyHTML(probe.in[1])[i] = "<script>"

\* the title the resolution order gives the element in place index (from 0)
ResolvedTitle(el, index) ==
    IF el.heading.level # 0 THEN Trim(el.heading.text)
    ELSE IF el.dataTitle # <<>> THEN Trim(ReplaceDashes(el.dataTitle))
    ELSE IF el.title # <<>> THEN Trim(ReplaceDashes(el.title))
    ELSE IF el.id # <<>> THEN Trim(ReplaceDashes(el.id))
    ELSE <<"Chapter", Space, ToString(index + 1)>>

\* C29: a chapter's title is the text of the first heading in its element;
\* without a heading, the data-title or title attribute or the element id with
\* '-' and '_' replaced by spaces; without those, "Chapter {i+1}"
C29_TitleOrder ==
    (Extracted /\ FirstSelector(probe.in[1]) # 0
        /\ OnePerElement(Matched(probe.in[1]), probe.out[1])) =>
        \A i \in 1..Len(probe.out[1]) :
            probe.out[1][i].title = ResolvedTitle(Matched(probe.in[1])[i], i - 1)

-----------------------------------------------------------------------------
(* Sanitisation of arbitrary markup.                                       *)

\* start tags that carry one attribute, and the attribute each carries
AttrTags == {"<p onclick>", "<p data-x>", "<a href>"}
AttrsOf(token) == IF token = "<p onclick>" THEN {"onclick"}
                  ELSE IF token = "<p data-x>" THEN {"data-x"}
                  ELSE IF token = "<a href>" THEN {"href"}
                  ELSE {}
ALLOWED_ATTR == {"href", "src", "alt", "title", "class", "id"}

Tokens == DangerousOpen \cup DangerousClose \cup AttrTags \cup {Newline, "x"}
Fragments == UNION {[1..n -> Tokens] : n \in 0..MaxFragment}

SanitizeInit ==
    /\ Init!1 /\ Init!2 /\ Init!3 /\ Init!4 /\ Init!5 /\ Init!6 /\ Init!7
    /\ Init!8 /\ Init!9 /\ Init!10 /\ Init!11 /\ Init!12 /\ Init!13 /\ Init!14
    /\ Init!16 /\ Init!17 /\ Init!18 /\ Init!19 /\ Init!20 /\ Init!21
    /\ \E html \in Fragments :
         probe = [fn |-> "sanitize", in |-> <<html>>, out |-> <<>>, done |-> FALSE]

\* sanitizeContent is called on a piece of markup
SanitizeContent ==
    /\ probe.fn = "sanitize" /\ ~probe.done
    /\ probe' = [probe EXCEPT !.out = <<Sanitize(probe.in[1])>>, !.done = TRUE]
    /\ Op("sanitize", 0)
    /\ UNCHANGED <<impl, classes, novelData, currentChapter, currentPosition, shown, scrollTop,
                   scrollEvt, btnBound, timers, progress, storageFails, reads,
                   autoCount, bookmarks, storedBookmarks, marksBefore, settings,
                   storedSettings>>

SpecSanitize == SanitizeInit /\ [][SanitizeContent]_vars

\* the markup opens a script, style, iframe, object or embed element
HasDangerous(html) == \E i \in DOMAIN html : html[i] \in DangerousOpen

\* C30: whatever the input, the output of sanitizeContent contains no script,
\* style, iframe, object or embed element, in both implementations
C30_NoDangerousElement ==
    (probe.fn = "sanitize" /\ probe.done) => ~HasDangerous(probe.out[1])

\* C31: whatever the input, every attribute in the output of sanitizeContent
\* is one of href, src, alt, title, class, id; data-* attributes and
\* event-handler attributes are removed (part_000 without DOMPurify, reader.js)
C31_OnlyAllowedAttributes ==
    (probe.fn = "sanitize" /\ probe.done) =>
        \A i \in DOMAIN probe.out[1] : AttrsOf(probe.out[1][i]) \subseteq ALLOWED_ATTR

-----------------------------------------------------------------------------
(* Sanitising twice.  The markup may hold the two halves "<scr" and "ipt>" *)
(* of a script tag apart from each other.                                  *)

MaxSplit == 5
SplitTokens == {"<scr", "ipt>", "<script>", "</script>", "x", Newline}
SplitFragments ==
    {str \in UNION {[1..n -> SplitTokens] : n \in 0..MaxSplit} : Join(str) = str}

TwiceInit ==
    /\ Init!1 /\ Init!2 /\ Init!3 /\ Init!4 /\ Init!5 /\ Init!6 /\ Init!7
    /\ Init!8 /\ Init!9 /\ Init!10 /\ Init!11 /\ Init!12 /\ Init!13 /\ Init!14
    /\ Init!16 /\ Init!17 /\ Init!18 /\ Init!19 /\ Init!20 /\ Init!21
    /\ \E html \in SplitFragments :
         probe = [fn |-> "twice", in |-> <<html>>, out |-> <<>>, done |-> FALSE]

\* sanitizeContent is called on a piece of markup and again on its result
SanitizeTwice ==
    /\ probe.fn = "twice" /\ ~probe.done
    /\ probe' = [probe EXCEPT !.out = <<Sanitize(probe.in[1]),
                                        Sanitize(Sanitize(probe.in[1]))>>,
                              !.done = TRUE]
    /\ Op("twice", 0)
    /\ UNCHANGED <<impl, classes, novelData, currentChapter, currentPosition, shown, scrollTop,
                   scrollEvt, btnBound, timers, progress, storageFails, reads,
                   autoCount, bookmarks, storedBookmarks, marksBefore, settings,
                   storedSettings>>

SpecTwice == TwiceInit /\ [][SanitizeTwice]_vars

\* C32: sanitizeContent is idempotent in both implementations: sanitising the
\* result again gives the result, also when removing one script element joins
\* the text around it into a new script element
C32_SanitizeIdempotent ==
    (probe.fn = "twice" /\ probe.done) => probe.out[2] = probe.out[1]

-----------------------------------------------------------------------------
(* Export, and loading what was exported.                                  *)

\* an element without class, id, attributes or heading
Plain(tag, text) ==
    [tag |-> tag, cls |-> FALSE, id |-> <<>>, dataTitle |-> <<>>, title |-> <<>>,
     heading |-> NoHeading, text |-> text, children |-> <<>>]

FileName == <<"novel", ".html">>
\* file.name.replace(/\.html?$/i, '')
StripHtml(name) ==
    IF name # <<>> /\ name[Len(name)] \in {".html", ".htm"}
    THEN SubSeq(name, 1, Len(name) - 1) ELSE name

\* the title processFile gives a document that has no title element
\* (part_000), parseNovelHTML likewise (reader.js)
TitleOf(docTitle, name) ==
    IF docTitle # <<>> THEN docTitle
    ELSE IF impl = "reader" THEN <<"Untitled", Space, "Novel">>
    ELSE StripHtml(name)

\* the characters that are not in [a-z0-9] whatever their case; a word of a
\* title counts as the letters it is made of
NonAlnum == {Space, "/", "-", "_", ".", ":", "é"}
\* reader.js: title.replace(/[^a-z0-9]/gi, '_') + '_enhanced.html'
R_downloadName(title) ==
    [i \in DOMAIN title |-> IF title[i] \in NonAlnum THEN "_" ELSE title[i]]
    \o <<"_enhanced", ".html">>
\* part_000: `${title}-export.json`
downloadName(title) == title \o <<"-export.json">>

\* reader.js generateExportHTML: the file exportNovel offers for download
generateExportHTML(nd) ==
    LET chapterCount == Len(nd.chapters)
        chapterDiv(i) ==
            [tag |-> "div", cls |-> TRUE, id |-> <<"chapter", "-", ToString(i)>>,
             dataTitle |-> <<>>, title |-> <<>>,
             heading |-> [level |-> 2, text |-> nd.chapters[i].title],
             text |-> <<"<div style>">> \o nd.chapters[i].content \o <<"</div>">>
                      \o (IF i < chapterCount THEN <<"<hr>">> ELSE <<>>),
             children |-> <<>>]
    IN [title |-> nd.title \o <<Space, "-", Space, "Enhanced", Space, "Reading">>,
        name |-> R_downloadName(nd.title),
        body |-> <<Plain("h1", nd.title), Plain("div", <<"<em>", "Enhanced", "</em>">>)>>
                 \o [i \in 1..chapterCount |-> chapterDiv(i)]
                 \o <<Plain("div", <<"<button onclick>", "Previous", "</button>">>),
                      Plain("script", <<"scrollToChapter">>)>>]

\* part_000 exportNovel: JSON.stringify(exportData), read back as text/html:
\* the text of the object with the markup of the chapters in it, and no title
exportJSON(nd, marks) ==
    [title |-> <<>>,
     name |-> downloadName(nd.title),
     body |-> <<Plain("#text",
                  <<"{">> \o nd.title
                  \o Flatten([i \in 1..Len(nd.chapters) |->
                                nd.chapters[i].title \o nd.chapters[i].content])
                  \o Flatten([i \in 1..Len(marks) |-> marks[i].novelTitle])
                  \o <<"}">>)>>]

Export(nd, marks) ==
    IF impl = "reader" THEN generateExportHTML(nd) ELSE exportJSON(nd, marks)

\* the novel processFile makes of a file
Load(file) == [title |-> TitleOf(file.title, file.name), chapters |-> Extract(file.body)]

\* the bookmarks of a novel: those that carry its title
BookmarksOf(nd) == {b \in Elements(bookmarks) : b.novelTitle = nd.title}

RoundTripInit ==
    /\ Init!1 /\ Init!2 /\ Init!3 /\ Init!4 /\ Init!5 /\ Init!6 /\ Init!7
    /\ Init!8 /\ Init!9 /\ Init!10 /\ Init!11 /\ Init!12 /\ Init!13 /\ Init!14
    /\ Init!17 /\ Init!18 /\ Init!19 /\ Init!20 /\ Init!21
    /\ \E doc \in Documents :
         probe = [fn |-> "roundTrip",
                  in |-> <<[title |-> <<>>, name |-> FileName, body |-> doc]>>,
                  out |-> <<>>, done |-> FALSE]
    /\ bookmarks \in {<<>>, <<Mark(TitleOf(<<>>, FileName), 0)>>}

\* a file is loaded, exported at once, and the exported file is loaded
RoundTrip ==
    /\ probe.fn = "roundTrip" /\ ~probe.done
    /\ LET first == Load(probe.in[1])
           filtered == SelectSeq(bookmarks, LAMBDA b : b.novelTitle = first.title)
       IN probe' = [probe EXCEPT !.out = <<first, Load(Export(first, filtered))>>,
                                 !.done = TRUE]
    /\ Op("roundTrip", 0)
    /\ UNCHANGED <<impl, classes, novelData, currentChapter, currentPosition, shown, scrollTop,
                   scrollEvt, btnBound, timers, progress, storageFails, reads,
                   autoCount, bookmarks, storedBookmarks, marksBefore, settings,
                   storedSettings>>

SpecRoundTrip == RoundTripInit /\ [][RoundTrip]_vars

\* C33: loading a novel, exporting it at once and loading the exported file
\* gives the same chapter titles and contents in the same order, and the same
\* bookmark set for the novel
C33_ExportRoundTrip ==
    (probe.fn = "roundTrip" /\ probe.done) =>
        /\ probe.out[2].chapters = probe.out[1].chapters
        /\ BookmarksOf(probe.out[2]) = BookmarksOf(probe.out[1])

-----------------------------------------------------------------------------
(* The name of the exported file.                                          *)

MaxTitle == 3
TitleChars == {"a", "Z", "7", Space, "/", "é"}
NovelTitles == UNION {[1..n -> TitleChars] : n \in 1..MaxTitle}

FilenameInit ==
    /\ Init!1 /\ Init!2 /\ Init!3 /\ Init!4 /\ Init!5 /\ Init!6 /\ Init!7
    /\ Init!8 /\ Init!9 /\ Init!10 /\ Init!11 /\ Init!12 /\ Init!13 /\ Init!14
    /\ Init!16 /\ Init!17 /\ Init!18 /\ Init!19 /\ Init!20 /\ Init!21
    /\ \E title \in NovelTitles :
         probe = [fn |-> "downloadName", in |-> <<title>>, out |-> <<>>, done |-> FALSE]

\* exportNovel names the download after the novel's title
NameDownload ==
    /\ probe.fn = "downloadName" /\ ~probe.done
    /\ probe' = [probe EXCEPT !.out = <<IF impl = "reader"
                                        THEN R_downloadName(probe.in[1])
                                        ELSE downloadName(probe.in[1])>>,
                              !.done = TRUE]
    /\ Op("downloadName", 0)
    /\ UNCHANGED <<impl, classes, novelData, currentChapter, currentPosition, shown, scrollTop,
                   scrollEvt, btnBound, timers, progress, storageFails, reads,
                   autoCount, bookmarks, storedBookmarks, marksBefore, settings,
                   storedSettings>>

SpecFilename == FilenameInit /\ [][NameDownload]_vars

\* C35: the title part of the download's name holds only alphanumeric
\* characters and the separator, whatever the novel's title, in both
\* implementations
C35_SafeFilename ==
    (probe.fn = "downloadName" /\ probe.done) =>
        \A i \in 1..Len(probe.in[1]) :
            probe.out[1][i] \in {"a", "Z", "7", "_", "-"}

-----------------------------------------------------------------------------
(* File loads that overlap: a file may be selected while another is still  *)
(* being read, and the reads end in any order.                             *)

MaxOverlap == 2

\* handleFileSelect / handleDrop: no field tells that a read is under way, so
\* the file goes to a FileReader of its own.  The probe keeps the file and
\* the number of reads under way when it was selected.
SelectOverlapping(file) ==
    /\ Len(reads) < MaxOverlap
    /\ reads' = Append(reads, file)
    /\ probe' = [fn |-> "select", in |-> <<file>>, out |-> <<Len(reads)>>, done |-> TRUE]
    /\ Op("selectFile", 0)
    /\ autoCount' = 0
    /\ UNCHANGED <<impl, classes, settings, storedSettings, bookmarks, storedBookmarks,
                   marksBefore, novelData, currentChapter, currentPosition, shown,
                   scrollTop, scrollEvt, btnBound, timers, progress, storageFails>>

OverlapNext ==
    \/ \E file \in Files : SelectOverlapping(file)
    \/ \E i \in 1..MaxOverlap : ReadDone(i)
    \/ NextClick

SpecOverlap == Init /\ [][OverlapNext]_vars

\* C38: when a second file is selected while the first is still being read,
\* then once both reads have completed the loaded novel is the one of the
\* file selected last, in whatever order the reads end
C38_LastSelectedWins ==
    [][(op'.name = "load" /\ reads' = <<>> /\ probe.fn = "select" /\ probe.out[1] > 0)
          => novelData' = probe.in[1]]_vars

-----------------------------------------------------------------------------
(* Documents whose elements hold elements.                                 *)

MaxNested == 2

\* an element of the shape with the text a and the children
Holding(s, children) ==
    [tag |-> s.tag, cls |-> s.cls, id |-> s.id, dataTitle |-> <<>>, title |-> <<>>,
     heading |-> NoHeading, text |-> <<"a">>, children |-> children]
NestedElements ==
    {Holding(s, <<>>) : s \in Shapes}
    \cup {Holding(s, <<Holding(c, <<>>)>>) : s \in Shapes, c \in Shapes}
NestedDocuments == UNION {[1..n -> NestedElements] : n \in 1..MaxNested}

\* where each element of Preorder(doc) lies: <<i>> is the i-th element of the
\* body, <<i, k>> the k-th element inside it
PathsOf(doc) ==
    Flatten([i \in DOMAIN doc |->
               <<<<i>>>> \o [k \in DOMAIN doc[i].children |-> <<i, k>>]])

\* the places of the elements of a sequence that the selector selects
RECURSIVE SelectedFrom(_, _, _)
SelectedFrom(elements, selector, i) ==
    IF i > Len(elements) THEN <<>>
    ELSE (IF Selects(selector, elements[i]) THEN <<i>> ELSE <<>>)
         \o SelectedFrom(elements, selector, i + 1)

\* where the source element of each chapter lies: part_000 keeps it in
\* chapter.element; reader.js pushes a chapter for each element that passes
\* its test; <<>> is the body of the fallback
RECURSIVE sourcesFrom(_, _)
sourcesFrom(doc, selector) ==
    IF selector \notin SELECTORS THEN <<>>
    ELSE LET at == SelectedFrom(Preorder(doc), selector, 1)
             kept == IF impl = "reader"
                     THEN SelectSeq(at, LAMBDA i : InnerHTML(Preorder(doc)[i]) # <<>>)
                     ELSE at
         IN IF Len(at) > 0 THEN [k \in DOMAIN kept |-> PathsOf(doc)[kept[k]]]
            ELSE sourcesFrom(doc, selector + 1)
SourcesOf(doc) ==
    IF sourcesFrom(doc, 1) = <<>> THEN <<<<>>>> ELSE sourcesFrom(doc, 1)

NestedInit ==
    /\ Init!1 /\ Init!2 /\ Init!3 /\ Init!4 /\ Init!5 /\ Init!6 /\ Init!7
    /\ Init!8 /\ Init!9 /\ Init!10 /\ Init!11 /\ Init!12 /\ Init!13 /\ Init!14
    /\ Init!16 /\ Init!17 /\ Init!18 /\ Init!19 /\ Init!20 /\ Init!21
    /\ \E doc \in NestedDocuments :
         probe = [fn |-> "extractNested", in |-> <<doc>>, out |-> <<>>, done |-> FALSE]

\* the chapters of the document are extracted; the probe keeps them and
\* where their source elements lie
ExtractNested ==
    /\ probe.fn = "extractNested" /\ ~probe.done
    /\ probe' = [probe EXCEPT !.out = <<Extract(probe.in[1]), SourcesOf(probe.in[1])>>,
                              !.done = TRUE]
    /\ Op("extractNested", 0)
    /\ UNCHANGED <<impl, classes, novelData, currentChapter, currentPosition, shown, scrollTop,
                   scrollEvt, btnBound, timers, progress, storageFails, reads,
                   autoCount, bookmarks, storedBookmarks, marksBefore, settings,
                   storedSettings>>

SpecNested == NestedInit /\ [][ExtractNested]_vars

\* the element at the first place lies inside the element at the second
Inside(inner, outer) ==
    Len(inner) > Len(outer) /\ SubSeq(inner, 1, Len(outer)) = outer

\* C39: the chapters of one extraction never overlap: no chapter's source
\* element lies inside the source element of another chapter, also when the
\* selected pattern matches an element and an element nested in it
C39_ChaptersDisjoint ==
    (probe.fn = "extractNested" /\ probe.done) =>
        /\ Len(probe.out[1]) = Len(probe.out[2])
        /\ \A i, j \in DOMAIN probe.out[2] : ~Inside(probe.out[2][i], probe.out[2][j])

====
